---- MODULE Spec2Model ----
(***************************************************************************)
(* Service registry backends of go-box (memory, etcd, ZooKeeper): the      *)
(* Register / Unregister / Watch / GetServiceInstances operations and the  *)
(* background goroutine of every Watch subscription, together with a       *)
(* consumer that receives from the channel Watch returns: a plain caller   *)
(* or the gRPC resolver built over the registry.  The registry factory     *)
(* NewRegistry chooses the backend.                                        *)
(***************************************************************************)
EXTENDS Integers, Sequences, FiniteSets, TLC

\* ------------------------------------------------------------------ bounds

MaxSubs == 2
MaxOps == 2
MaxFaults == 1
MaxPending == 1
MaxEnv == 3
MaxLog == 1
MaxLookups == 1
MaxRetries == 7
MaxCalls == 2
MaxLocks == 2

Subs == 1..MaxSubs

\* ----------------------------------------------------- program constants

MemChanCap == 1
EtcdChanCap == 10
BackoffStart == 1
BackoffFactor == 2
BackoffCap == 30
ZkRetryDelay == 2
UnlockTries == 3

\* ------------------------------------------------------------- data model

Names == {"s1", "s2"}
Addrs == {"a1", "a2"}
AddrOrder == <<"a1", "a2">>

\* ServiceInfo values the callers register.  Metadata is the set of the
\* map's (key, value) pairs.
ServiceInfo(n, a, v, m) == [Name |-> n, Address |-> a, Version |-> v, Metadata |-> m]
NoInfo == ServiceInfo("", "", "", {})
Infos ==
    { ServiceInfo("s1", "a1", "v1", {<<"version", "v1">>}),
      ServiceInfo("s1", "a1", "v2", {<<"zone", "z1">>}),
      ServiceInfo("s1", "a2", "v1", {}),
      ServiceInfo("s2", "a1", "v1", {<<"version", "v1">>}) }

ServiceInstance(a, m) == [Address |-> a, Metadata |-> m]

\* ---------------------------------------------------------------- helpers

Range(s) == { s[i] : i \in 1..Len(s) }

Min(a, b) == IF a < b THEN a ELSE b

\* All orderings of a finite set, as sequences without repetition.
Orderings(S) ==
    { s \in [1..Cardinality(S) -> S] : \A i, j \in 1..Cardinality(S) : i # j => s[i] # s[j] }

\* The sequence s without its first element equal to x.
RECURSIVE RemoveFirst(_, _)
RemoveFirst(s, x) ==
    IF s = <<>> THEN <<>>
    ELSE IF Head(s) = x THEN Tail(s)
    ELSE <<Head(s)>> \o RemoveFirst(Tail(s), x)

VARIABLES
    backend,     \* the backend the registry was constructed with
    services,    \* the backing store: service name -> address -> stored value
    zkNode,      \* ZooKeeper: whether the znode {root}/{service} exists
    watchers,    \* memory: service name -> list of subscriber channels
    cache,       \* etcd, ZooKeeper: service name -> last snapshot written
    wName,       \* per subscription: the service name passed to Watch
    wpc,         \* per subscription: where its Watch call / goroutine stands
    ctxDone,     \* per subscription: the Watch context is cancelled
    chan,        \* per subscription: the values buffered in the channel
    closes,      \* per subscription: how many times the channel was closed
    sentOnClosed,\* subscriptions whose channel was sent to after its close
    wInst,       \* per subscription: the goroutine's local instances
    backoff,     \* per subscription: etcd loop's backoff, in seconds
    stream,      \* per subscription: the etcd watch stream / ZooKeeper watch
    delays,      \* per subscription: the delays slept so far, in seconds
    resynced,    \* per subscription: listed since the last stream failure
    recvLast,    \* per subscription: the snapshot its consumer received last
    regd,        \* infos whose Register returned nil and that still stand
    everReg,     \* service names some Register has returned nil for
    lastListed,  \* service name -> snapshot of the latest successful listing
    got,         \* the last GetServiceInstances call: name, result, aliasing
    leases,      \* etcd: lease id -> the lease, its keep-alive channel and loop
    keyLease,    \* etcd: service name -> address -> lease attached to the key
    ret,         \* etcd: the last Register/Unregister call and what it returned
    opt,         \* factory: the option NewRegistry is called with
    made,        \* factory: what the NewRegistry call returned
    rpc,         \* per subscription: who holds it, a caller or the resolver's loop
    addrs,       \* per subscription: the resolver's r.addrs
    updates,     \* per subscription: the arguments of cc.UpdateState so far
    rcvd,        \* per subscription: the snapshots the resolver's loop received
    nClose,      \* per subscription: how many times the resolver's Close ran
    loops,       \* per subscription: how many times Build ran go r.watch()
    lock,        \* one RedisLock, its key in Redis and its goroutines
    budget       \* calls and faults still to come, per kind and in total

vars == << backend, services, zkNode, watchers, cache, wName, wpc, ctxDone, chan,
           closes, sentOnClosed, wInst, backoff, stream, delays, resynced,
           recvLast, regd, everReg, lastListed, got, leases, keyLease, ret, opt,
           made, rpc, addrs, updates, rcvd, nClose, loops, lock, budget >>

storeVars == << services, zkNode >>
chanVars == << chan, closes, sentOnClosed >>
loopVars == << wInst, backoff, stream, delays, resynced >>
ghostVars == << regd, everReg, lastListed >>
leaseVars == << leases, keyLease, ret >>
factoryVars == << opt, made >>
resolverVars == << rpc, addrs, updates, rcvd, nClose, loops >>

\* What recvLast holds before the consumer received anything.
NoSnap == <<ServiceInstance("", {})>>

NoStream == [open |-> FALSE, pending |-> 0, failed |-> FALSE]
NewStream == [open |-> TRUE, pending |-> 0, failed |-> FALSE]
NoGot == [name |-> "", val |-> <<>>, alias |-> FALSE]

\* The lease ids Grant hands out, one per Register call.
Leases == 1..MaxOps

\* A lease id no Grant has returned yet.  state is none, live or gone; ka is
\* the keep-alive channel: none, open or closed; loop is the goroutine of
\* Register: none, run, or how it returned: cleaned (after the channel was
\* closed), cancelled (on ctx.Done), raced (on ctx.Done with the channel
\* closed as well).
NoLease ==
    [state |-> "none", name |-> "", addr |-> "", ka |-> "none", loop |-> "none",
     ctxDone |-> FALSE]

\* What ret holds before any call: op is the call, lease the id its Grant
\* returned (for Unregister the LeaseID of its info), failed the backend
\* error that occurred, err the error returned, revoked whether the Revoke
\* of a failed Register succeeded.
NoRet == [op |-> "", lease |-> 0, failed |-> "", err |-> "", revoked |-> FALSE]

\* The goroutines startAutoRenew of the lock, one per successful Lock.
Renewers == 1..MaxLocks

\* A RedisLock after NewRedisLock (lines 331-339) and its key in Redis. key
\* is what Redis holds under l.key: nothing, l.value, or the value of a
\* lock of another owner. cancelFunc is 0 for nil, else the goroutine whose
\* context the function cancels. renew is where each goroutine stands, wg
\* the counter of l.wg, ttl whether the key was set or renewed lately. pc
\* is where the Unlock call stands, which holds l.mux while it is not
\* "idle"; tries counts its failed Evals. op, ok and
\* err are the last call that returned and what it returned.
NoLock ==
    [key |-> "none", cancelFunc |-> 0, renew |-> [g \in Renewers |-> "none"], wg |-> 0,
     pc |-> "idle", tries |-> 0, ttl |-> 0, op |-> "", ok |-> FALSE, err |-> FALSE]

\* RegistryOption: a nil pointer, or Type with the two sub-config pointers,
\* each nil or set.
RegistryOption(t, e, z) == [isNil |-> FALSE, Type |-> t, Etcd |-> e, Zookeeper |-> z]
NilOption == [isNil |-> TRUE, Type |-> "", Etcd |-> "nil", Zookeeper |-> "nil"]

MemoryType == "memory"
EtcdType == "etcd"
ZkType == "zookeeper"

\* The options a caller may pass: the three types, the zero value of Type
\* and a string that names no backend.
Options ==
    {NilOption} \cup
    { RegistryOption(t, e, z) :
        t \in {MemoryType, EtcdType, ZkType, "", "consul"},
        e \in {"nil", "set"}, z \in {"nil", "set"} }

\* What made holds before NewRegistry is called: sel is the constructor
\* chosen, failed whether it returned an error.
NoCall == [called |-> FALSE, sel |-> "", failed |-> FALSE]

\* The state right after NewMemoryRegistry / NewEtcdRegistry / NewZkRegistry
\* (backend in B), or before NewRegistry is called (backend none, option in
\* O).  NewZkRegistry creates the root znode only: a service znode exists if
\* another client of the ZooKeeper ensemble has created it.  holder is who
\* opens the subscriptions: "caller" for plain callers of Watch, "none" for
\* resolvers yet to be built.
InitOf(B, O, holder, env, subs, ops, faults, lookups, log, calls) ==
    /\ backend \in B
    /\ services = [n \in Names |-> [a \in Addrs |-> NoInfo]]
    /\ zkNode \in [Names -> BOOLEAN]
    /\ backend # "zk" => zkNode = [n \in Names |-> FALSE]
    /\ watchers = [n \in Names |-> <<>>]
    /\ cache = [n \in Names |-> <<>>]
    /\ wName = [w \in Subs |-> ""]
    /\ wpc = [w \in Subs |-> "none"]
    /\ ctxDone = [w \in Subs |-> FALSE]
    /\ chan = [w \in Subs |-> <<>>]
    /\ closes = [w \in Subs |-> 0]
    /\ sentOnClosed = {}
    /\ wInst = [w \in Subs |-> <<>>]
    /\ backoff = [w \in Subs |-> 0]
    /\ stream = [w \in Subs |-> NoStream]
    /\ delays = [w \in Subs |-> <<>>]
    /\ resynced = [w \in Subs |-> TRUE]
    /\ recvLast = [w \in Subs |-> NoSnap]
    /\ regd = {}
    /\ everReg = {}
    /\ lastListed = [n \in Names |-> <<>>]
    /\ got = NoGot
    /\ leases = [l \in Leases |-> NoLease]
    /\ keyLease = [n \in Names |-> [a \in Addrs |-> 0]]
    /\ ret = NoRet
    /\ opt \in O
    /\ made = NoCall
    /\ rpc = [w \in Subs |-> holder]
    /\ addrs = [w \in Subs |-> <<>>]
    /\ updates = [w \in Subs |-> <<>>]
    /\ rcvd = [w \in Subs |-> <<>>]
    /\ nClose = [w \in Subs |-> 0]
    /\ loops = [w \in Subs |-> 0]
    /\ lock = NoLock
    /\ budget = [env |-> env, subs |-> subs, ops |-> ops, faults |-> faults,
                 lookups |-> lookups, log |-> log, calls |-> calls]

\* A registry constructed directly, its subscriptions held by plain callers.
InitWith(B, env, subs, ops, faults, lookups, log) ==
    InitOf(B, {NilOption}, "caller", env, subs, ops, faults, lookups, log, 0)

\* A call or fault of the given kind is still to come, and is now spent.
CanSpend(kind) == budget[kind] > 0 /\ budget.env > 0
Spend(kind) == budget' = [budget EXCEPT ![kind] = @ - 1, !.env = @ - 1]

\* The callers' next Watch call opens subscription w.
NextSub(w) ==
    /\ CanSpend("subs")
    /\ wpc[w] = "none"
    /\ \A v \in Subs : v < w => wpc[v] # "none"

\* The infos of regd under another key than that of i.
OtherKeys(i) == { j \in regd : j.Name # i.Name \/ j.Address # i.Address }

\* The addresses registered under a service name in the store.
Registered(svc, n) == { a \in Addrs : svc[n][a] # NoInfo }

\* The consumer of subscription w is ready to receive: a plain caller, or
\* the resolver's watch loop at its select (part_005 lines 120-123).
Receiving(w) == rpc[w] \in {"caller", "run"}

\* The consumer of subscription w receives snap.  The resolver's loop goes on
\* to build the address list (part_005 lines 123-131).
consume(w, snap) ==
    /\ recvLast' = [recvLast EXCEPT ![w] = snap]
    /\ IF rpc[w] = "run"
       THEN /\ rpc' = [rpc EXCEPT ![w] = "update"]
            /\ rcvd' = [rcvd EXCEPT ![w] = Append(@, snap)]
       ELSE UNCHANGED << rpc, rcvd >>

\* ------------------------------------------------------- memory backend

\* MemoryRegistry.getInstances: one instance per entry of m.services[name],
\* in the order the map iteration yields them (any order).
getInstances(svc, n) ==
    { [k \in 1..Len(o) |-> ServiceInstance(svc[n][o[k]].Address, svc[n][o[k]].Metadata)] :
        o \in Orderings(Registered(svc, n)) }

\* A notification that reaches no subscriber.
notifyNobody(ch, list, insts) == ch

\* A notification sent to the subscribers of every service.
notifyEveryService(ch, list, insts) ==
    [w \in Subs |->
        IF (\E n \in Names : w \in Range(watchers[n])) /\ Len(ch[w]) < MemChanCap
        THEN Append(ch[w], insts) ELSE ch[w]]

\* MemoryRegistry.notifyWatchers: a non-blocking send of insts to every
\* channel of the list; a full channel keeps what it holds.
notifyWatchers(ch, list, insts) ==
    [w \in Subs |->
        IF w \in Range(list) /\ Len(ch[w]) < MemChanCap
        THEN Append(ch[w], insts) ELSE ch[w]]

\* The channels of the list that notifyWatchers sends to although closed.
notifyClosed(list) == { w \in Range(list) : closes[w] > 0 }

\* A Register whose sends wait for room in every subscriber channel.
MemRegisterBlocking(i) ==
    /\ backend = "memory"
    /\ CanSpend("ops")
    /\ \A w \in Range(watchers[i.Name]) : Len(chan[w]) < MemChanCap
    /\ services' = [services EXCEPT ![i.Name][i.Address] = i]
    /\ \E insts \in getInstances(services', i.Name) :
          chan' = notifyWatchers(chan, watchers[i.Name], insts)
    /\ sentOnClosed' = sentOnClosed \cup notifyClosed(watchers[i.Name])
    /\ regd' = OtherKeys(i) \cup {i}
    /\ everReg' = everReg \cup {i.Name}
    /\ Spend("ops")
    /\ UNCHANGED << lock, backend, factoryVars, resolverVars, leaseVars, zkNode, watchers,
                    cache, wName, wpc, ctxDone, closes,
                    loopVars, recvLast, lastListed, got >>

\* A Register that writes a service map of its own, holding its entry only.
MemRegisterAlone(i) ==
    /\ backend = "memory"
    /\ CanSpend("ops")
    /\ services' = [services EXCEPT
                       ![i.Name] = [a \in Addrs |-> IF a = i.Address THEN i ELSE NoInfo]]
    /\ \E insts \in getInstances(services', i.Name) :
          chan' = notifyWatchers(chan, watchers[i.Name], insts)
    /\ sentOnClosed' = sentOnClosed \cup notifyClosed(watchers[i.Name])
    /\ regd' = OtherKeys(i) \cup {i}
    /\ everReg' = everReg \cup {i.Name}
    /\ Spend("ops")
    /\ UNCHANGED << lock, backend, factoryVars, resolverVars, leaseVars, zkNode, watchers,
                    cache, wName, wpc, ctxDone, closes,
                    loopVars, recvLast, lastListed, got >>

\* A Register that keeps the entry an address already has.
MemRegisterKeepFirst(i) ==
    /\ backend = "memory"
    /\ CanSpend("ops")
    /\ services' = IF services[i.Name][i.Address] # NoInfo THEN services
                   ELSE [services EXCEPT ![i.Name][i.Address] = i]
    /\ \E insts \in getInstances(services', i.Name) :
          chan' = notifyWatchers(chan, watchers[i.Name], insts)
    /\ sentOnClosed' = sentOnClosed \cup notifyClosed(watchers[i.Name])
    /\ regd' = OtherKeys(i) \cup {i}
    /\ everReg' = everReg \cup {i.Name}
    /\ Spend("ops")
    /\ UNCHANGED << lock, backend, factoryVars, resolverVars, leaseVars, zkNode, watchers,
                    cache, wName, wpc, ctxDone, closes,
                    loopVars, recvLast, lastListed, got >>

MemRegister(i) ==
    /\ backend = "memory"
    /\ CanSpend("ops")
    /\ services' = [services EXCEPT ![i.Name][i.Address] = i]
    /\ \E insts \in getInstances(services', i.Name) :
          chan' = notifyWatchers(chan, watchers[i.Name], insts)
    /\ sentOnClosed' = sentOnClosed \cup notifyClosed(watchers[i.Name])
    /\ regd' = OtherKeys(i) \cup {i}
    /\ everReg' = everReg \cup {i.Name}
    /\ Spend("ops")
    /\ UNCHANGED << lock, backend, factoryVars, resolverVars, leaseVars, zkNode, watchers,
                    cache, wName, wpc, ctxDone, closes,
                    loopVars, recvLast, lastListed, got >>

MemUnregister(i) ==
    /\ backend = "memory"
    /\ CanSpend("ops")
    /\ services' = [services EXCEPT ![i.Name][i.Address] = NoInfo]
    /\ \E insts \in getInstances(services', i.Name) :
          chan' = notifyWatchers(chan, watchers[i.Name], insts)
    /\ sentOnClosed' = sentOnClosed \cup notifyClosed(watchers[i.Name])
    /\ regd' = OtherKeys(i)
    /\ Spend("ops")
    /\ UNCHANGED everReg
    /\ UNCHANGED << lock, backend, factoryVars, resolverVars, leaseVars, zkNode, watchers,
                    cache, wName, wpc, ctxDone, closes,
                    loopVars, recvLast, lastListed, got >>

\* A Watch whose first snapshot is empty whatever the store holds.
MemWatchEmptyFirst(w, n) ==
    /\ backend = "memory"
    /\ NextSub(w)
    /\ wName' = [wName EXCEPT ![w] = n]
    /\ watchers' = [watchers EXCEPT ![n] = Append(@, w)]
    /\ wInst' = [wInst EXCEPT ![w] = <<>>]
    /\ wpc' = [wpc EXCEPT ![w] = "m_send"]
    /\ Spend("subs")
    /\ UNCHANGED << lock, backend, factoryVars, resolverVars, leaseVars, storeVars, cache,
                    ctxDone, chanVars, backoff, stream, delays, resynced, recvLast,
                    ghostVars, got >>

\* MemoryRegistry.Watch, lines 48-52: make the channel, and under the lock
\* append it to the subscriber list and take the current instances.
MemWatch(w, n) ==
    /\ backend = "memory"
    /\ NextSub(w)
    /\ wName' = [wName EXCEPT ![w] = n]
    /\ watchers' = [watchers EXCEPT ![n] = Append(@, w)]
    /\ \E insts \in getInstances(services, n) : wInst' = [wInst EXCEPT ![w] = insts]
    /\ wpc' = [wpc EXCEPT ![w] = "m_send"]
    /\ Spend("subs")
    /\ UNCHANGED << lock, backend, factoryVars, resolverVars, leaseVars, storeVars, cache,
                    ctxDone, chanVars, backoff, stream,
                    delays, resynced, recvLast, ghostVars, got >>

\* A first send that also finds room in a channel that holds a snapshot.
MemWatchSendAnyway(w) ==
    /\ wpc[w] = "m_send"
    /\ chan' = [chan EXCEPT ![w] = Append(@, wInst[w])]
    /\ wInst' = [wInst EXCEPT ![w] = <<>>]
    /\ wpc' = [wpc EXCEPT ![w] = "m_wait"]
    /\ UNCHANGED << lock, backend, factoryVars, resolverVars, leaseVars, storeVars, watchers,
                    cache, wName, ctxDone, closes,
                    sentOnClosed, backoff, stream, delays, resynced, recvLast,
                    ghostVars, got, budget >>

\* MemoryRegistry.Watch, lines 55-71: the blocking first send, after which
\* the goroutine is started and the channel returned.
MemWatchSend(w) ==
    /\ wpc[w] = "m_send"
    /\ Len(chan[w]) < MemChanCap
    /\ chan' = [chan EXCEPT ![w] = Append(@, wInst[w])]
    /\ wInst' = [wInst EXCEPT ![w] = <<>>]
    /\ wpc' = [wpc EXCEPT ![w] = "m_wait"]
    /\ UNCHANGED << lock, backend, factoryVars, resolverVars, leaseVars, storeVars, watchers,
                    cache, wName, ctxDone, closes,
                    sentOnClosed, backoff, stream, delays, resynced, recvLast,
                    ghostVars, got, budget >>

\* A goroutine that closes the channel and leaves it in the subscriber list.
removeWatcherKept(list, w) == list

\* A goroutine that leaves the subscriber list and the channel as they are.
MemWatchCloseNothing(w) ==
    /\ wpc[w] = "m_wait"
    /\ ctxDone[w]
    /\ wpc' = [wpc EXCEPT ![w] = "done"]
    /\ UNCHANGED << lock, backend, factoryVars, resolverVars, leaseVars, storeVars, watchers,
                    cache, wName, ctxDone, chanVars, loopVars, recvLast, ghostVars, got,
                    budget >>

\* The subscriber list cut off at the channel of w.
removeWatcherAndRest(list, w) ==
    IF w \in Range(list)
    THEN SubSeq(list, 1, (CHOOSE k \in 1..Len(list) : list[k] = w) - 1)
    ELSE list

\* The subscriber list without the channel of w (lines 62-68).
removeWatcher(list, w) == RemoveFirst(list, w)

\* The goroutine of MemoryRegistry.Watch, lines 59-69: once the context is
\* done, under the lock remove the channel from the list and close it.
MemWatchClose(w) ==
    /\ wpc[w] = "m_wait"
    /\ ctxDone[w]
    /\ watchers' = [watchers EXCEPT ![wName[w]] = removeWatcher(@, w)]
    /\ closes' = [closes EXCEPT ![w] = @ + 1]
    /\ wpc' = [wpc EXCEPT ![w] = "done"]
    /\ UNCHANGED << lock, backend, factoryVars, resolverVars, leaseVars, storeVars, cache,
                    wName, ctxDone, chan, sentOnClosed,
                    loopVars, recvLast, ghostVars, got, budget >>

\* MemoryRegistry.GetServiceInstances: the current instances of the store.
MemGetServiceInstances(n) ==
    /\ backend = "memory"
    /\ CanSpend("lookups")
    /\ \E insts \in getInstances(services, n) :
          got' = [name |-> n, val |-> insts, alias |-> FALSE]
    /\ Spend("lookups")
    /\ UNCHANGED << lock, backend, factoryVars, resolverVars, leaseVars, storeVars, watchers,
                    cache, wName, wpc, ctxDone,
                    chanVars, loopVars, recvLast, ghostVars >>

\* --------------------------------------------------------- etcd backend

\* The value EtcdRegistry.Register puts under the key: the JSON document of
\* info, which carries its Name, Address, Version and Metadata.
EtcdValue(i) == ServiceInfo(i.Name, i.Address, i.Version, i.Metadata)

\* The key/value pairs under the prefix of service n, in key order.
Kvs(svc, n) ==
    SelectSeq([k \in 1..Len(AddrOrder) |-> svc[n][AddrOrder[k]]], LAMBDA v : v # NoInfo)

\* The loop of loadInstances (lines 100-117): one instance per address not
\* seen before, its metadata holding the stored Version only.
RECURSIVE loadLoop(_, _)
loadLoop(kvs, addrSet) ==
    IF kvs = <<>> THEN <<>>
    ELSE IF Head(kvs).Address \in addrSet THEN loadLoop(Tail(kvs), addrSet)
    ELSE <<ServiceInstance(Head(kvs).Address, {<<"version", Head(kvs).Version>>})>>
            \o loadLoop(Tail(kvs), addrSet \cup {Head(kvs).Address})

\* loadInstances when Get succeeds.
loadInstances(svc, n) == loadLoop(Kvs(svc, n), {})

\* A put or delete under the prefix of service n reaches every open watch
\* stream on that prefix; responses not yet read are batched up to MaxPending.
notifyStreams(st, n) ==
    [w \in Subs |->
        IF st[w].open /\ ~st[w].failed /\ wName[w] = n
        THEN [st[w] EXCEPT !.pending = Min(@ + 1, MaxPending)] ELSE st[w]]

\* The lease id the next Grant returns.
NextLease(l) ==
    /\ leases[l].state = "none"
    /\ \A k \in Leases : k < l => leases[k].state # "none"

\* The lease Grant returns, the keep-alive channel of KeepAlive and the
\* goroutine of Register (lines 42, 54, 61) for the key of info i.
NewLease(i) ==
    [state |-> "live", name |-> i.Name, addr |-> i.Address, ka |-> "open",
     loop |-> "run", ctxDone |-> FALSE]

\* Lease l is lost, by Revoke or by expiry: it is gone and its keep-alive
\* channel is closed.
revoke(ls, l) ==
    [ls EXCEPT ![l].state = "gone",
               ![l].ka = IF @ = "open" THEN "closed" ELSE @]

\* etcd deletes the keys attached to a lost lease l.
dropKeys(svc, l) ==
    [n \in Names |-> [a \in Addrs |-> IF keyLease[n][a] = l THEN NoInfo ELSE svc[n][a]]]
dropAttached(kl, l) ==
    [n \in Names |-> [a \in Addrs |-> IF kl[n][a] = l THEN 0 ELSE kl[n][a]]]

\* The service names that have a key in svc and none in svc2.
Emptied(svc, svc2) ==
    { n \in Names : \E a \in Addrs : svc[n][a] # NoInfo /\ svc2[n][a] = NoInfo }

\* Every open watch stream on a service of the set ns gets a response.
notifyAll(st, ns) ==
    [w \in Subs |-> IF wName[w] \in ns THEN notifyStreams(st, wName[w])[w] ELSE st[w]]

\* EtcdRegistry.Register when Grant, Put and KeepAlive succeed (lines
\* 33-77): the key holds the value of i under a new lease, whose keep-alive
\* goroutine is started.
EtcdRegister(i) ==
    /\ backend = "etcd"
    /\ CanSpend("ops")
    /\ \E l \in Leases :
          /\ NextLease(l)
          /\ leases' = [leases EXCEPT ![l] = NewLease(i)]
          /\ keyLease' = [keyLease EXCEPT ![i.Name][i.Address] = l]
          /\ ret' = [NoRet EXCEPT !.op = "Register", !.lease = l]
    /\ services' = [services EXCEPT ![i.Name][i.Address] = EtcdValue(i)]
    /\ stream' = notifyStreams(stream, i.Name)
    /\ regd' = OtherKeys(i) \cup {i}
    /\ everReg' = everReg \cup {i.Name}
    /\ Spend("ops")
    /\ UNCHANGED << lock, backend, factoryVars, resolverVars, zkNode, watchers, cache, wName,
                    wpc, ctxDone, chanVars,
                    wInst, backoff, delays, resynced, recvLast, lastListed, got >>

\* k backend calls of one Register or Unregister call fail.
CanFail(k) == budget.faults >= k /\ budget.env > 0

\* How many of the calls whose outcomes are given have failed.
Failures(outcomes) == Cardinality({ k \in 1..Len(outcomes) : ~outcomes[k] })

\* Register when Grant fails (lines 42-45): the error is returned.
EtcdRegisterGrantErr(i) ==
    /\ backend = "etcd"
    /\ CanSpend("ops")
    /\ CanFail(1)
    /\ ret' = [NoRet EXCEPT !.op = "Register", !.failed = "grant", !.err = "grant"]
    /\ budget' = [budget EXCEPT !.ops = @ - 1, !.faults = @ - 1, !.env = @ - 1]
    /\ UNCHANGED << lock, backend, factoryVars, resolverVars, storeVars, watchers, cache,
                    wName, wpc, ctxDone, chanVars,
                    loopVars, recvLast, ghostVars, got, leases, keyLease >>

\* A Register that returns the error of Put and leaves the lease alone.
EtcdRegisterPutErrNoRevoke(i) ==
    /\ backend = "etcd"
    /\ CanSpend("ops")
    /\ \E l \in Leases, revoked \in BOOLEAN :
          /\ NextLease(l)
          /\ CanFail(1 + Failures(<<revoked>>))
          /\ leases' = [leases EXCEPT ![l] =
                           [NoLease EXCEPT !.state = "live", !.name = i.Name,
                                           !.addr = i.Address]]
          /\ ret' = [op |-> "Register", lease |-> l, failed |-> "put", err |-> "put",
                     revoked |-> revoked]
          /\ budget' = [budget EXCEPT !.ops = @ - 1,
                                      !.faults = @ - (1 + Failures(<<revoked>>)),
                                      !.env = @ - 1]
    /\ UNCHANGED << lock, backend, factoryVars, resolverVars, storeVars, watchers, cache,
                    wName, wpc, ctxDone, chanVars,
                    loopVars, recvLast, ghostVars, got, keyLease >>

\* Register when Put fails (lines 48-52): Revoke of the granted lease,
\* whose error is dropped, and the error of Put is returned.
EtcdRegisterPutErr(i) ==
    /\ backend = "etcd"
    /\ CanSpend("ops")
    /\ \E l \in Leases, revoked \in BOOLEAN :
          /\ NextLease(l)
          /\ CanFail(1 + Failures(<<revoked>>))
          /\ leases' = [leases EXCEPT ![l] =
                           [NoLease EXCEPT !.state = IF revoked THEN "gone" ELSE "live",
                                           !.name = i.Name, !.addr = i.Address]]
          /\ ret' = [op |-> "Register", lease |-> l, failed |-> "put", err |-> "put",
                     revoked |-> revoked]
          /\ budget' = [budget EXCEPT !.ops = @ - 1,
                                      !.faults = @ - (1 + Failures(<<revoked>>)),
                                      !.env = @ - 1]
    /\ UNCHANGED << lock, backend, factoryVars, resolverVars, storeVars, watchers, cache,
                    wName, wpc, ctxDone, chanVars,
                    loopVars, recvLast, ghostVars, got, keyLease >>

\* Register when KeepAlive fails (lines 54-59): the key was put under the
\* granted lease; Delete of the key and Revoke of the lease, whose errors
\* are dropped, and the error of KeepAlive is returned.  A revoked lease
\* takes its key with it.
EtcdRegisterKeepAliveErr(i) ==
    /\ backend = "etcd"
    /\ CanSpend("ops")
    /\ \E l \in Leases, deleted \in BOOLEAN, revoked \in BOOLEAN :
          /\ NextLease(l)
          /\ CanFail(1 + Failures(<<deleted, revoked>>))
          /\ leases' = [leases EXCEPT ![l] =
                           [NoLease EXCEPT !.state = IF revoked THEN "gone" ELSE "live",
                                           !.name = i.Name, !.addr = i.Address]]
          /\ services' = [services EXCEPT ![i.Name][i.Address] =
                             IF deleted \/ revoked THEN NoInfo ELSE EtcdValue(i)]
          /\ keyLease' = [keyLease EXCEPT ![i.Name][i.Address] =
                             IF deleted \/ revoked THEN 0 ELSE l]
          /\ ret' = [op |-> "Register", lease |-> l, failed |-> "keepalive",
                     err |-> "keepalive", revoked |-> revoked]
          /\ budget' = [budget EXCEPT !.ops = @ - 1,
                                      !.faults = @ - (1 + Failures(<<deleted, revoked>>)),
                                      !.env = @ - 1]
    /\ stream' = notifyStreams(stream, i.Name)
    /\ regd' = OtherKeys(i)
    /\ UNCHANGED << lock, backend, factoryVars, resolverVars, zkNode, watchers, cache, wName,
                    wpc, ctxDone, chanVars,
                    wInst, backoff, delays, resynced, recvLast, everReg, lastListed,
                    got >>

\* The lease ids an info for the key of i can carry in its LeaseID field:
\* 0 for an info Register never saw, or a lease granted for that key.
LeaseIDs(i) ==
    {0} \cup { l \in Leases : leases[l].state # "none" /\ leases[l].name = i.Name
                                /\ leases[l].addr = i.Address }

\* EtcdRegistry.Unregister of an info whose LeaseID is l (lines 79-86):
\* Delete of the key, then Revoke of the lease when l is not 0.
EtcdUnregister(i, l) ==
    /\ backend = "etcd"
    /\ CanSpend("ops")
    /\ l \in LeaseIDs(i)
    /\ LET deleted == [services EXCEPT ![i.Name][i.Address] = NoInfo]
           detached == [keyLease EXCEPT ![i.Name][i.Address] = 0]
       IN  /\ services' = IF l = 0 THEN deleted ELSE dropKeys(deleted, l)
           /\ keyLease' = IF l = 0 THEN detached ELSE dropAttached(detached, l)
           /\ leases' = IF l = 0 THEN leases ELSE revoke(leases, l)
    /\ stream' = IF services[i.Name][i.Address] # NoInfo
                 THEN notifyStreams(stream, i.Name) ELSE stream
    /\ ret' = [NoRet EXCEPT !.op = "Unregister", !.lease = l]
    /\ regd' = OtherKeys(i)
    /\ Spend("ops")
    /\ UNCHANGED everReg
    /\ UNCHANGED << lock, backend, factoryVars, resolverVars, zkNode, watchers, cache, wName,
                    wpc, ctxDone, chanVars,
                    wInst, backoff, delays, resynced, recvLast, lastListed, got >>

\* Unregister when Delete fails (lines 79-86): the key stays, the lease of
\* the info is revoked all the same, which takes the keys attached to it,
\* and the error of Delete is returned.
EtcdUnregisterErr(i, l) ==
    /\ backend = "etcd"
    /\ CanSpend("ops")
    /\ CanFail(1)
    /\ l \in LeaseIDs(i)
    /\ services' = IF l = 0 THEN services ELSE dropKeys(services, l)
    /\ keyLease' = IF l = 0 THEN keyLease ELSE dropAttached(keyLease, l)
    /\ leases' = IF l = 0 THEN leases ELSE revoke(leases, l)
    /\ stream' = notifyAll(stream, Emptied(services, services'))
    /\ ret' = [NoRet EXCEPT !.op = "Unregister", !.lease = l, !.failed = "delete",
                           !.err = "delete"]
    /\ regd' = { j \in regd : services'[j.Name][j.Address] # NoInfo }
    /\ budget' = [budget EXCEPT !.ops = @ - 1, !.faults = @ - 1, !.env = @ - 1]
    /\ UNCHANGED << lock, backend, factoryVars, resolverVars, zkNode, watchers, cache, wName,
                    wpc, ctxDone, chanVars,
                    wInst, backoff, delays, resynced, recvLast, everReg, lastListed,
                    got >>

\* The goroutine of Register finds its keep-alive channel closed (lines
\* 64-69): Delete of the key, whatever lease it is attached to, and Revoke
\* of the goroutine's own lease.
EtcdKeepAliveClosed(l) ==
    /\ leases[l].loop = "run"
    /\ leases[l].ka = "closed"
    /\ LET n == leases[l].name
           a == leases[l].addr
           deleted == [services EXCEPT ![n][a] = NoInfo]
       IN  /\ services' = dropKeys(deleted, l)
           /\ keyLease' = dropAttached([keyLease EXCEPT ![n][a] = 0], l)
           /\ stream' = IF services[n][a] # NoInfo
                        THEN notifyStreams(stream, n) ELSE stream
    /\ leases' = [revoke(leases, l) EXCEPT ![l].loop = "cleaned"]
    /\ UNCHANGED << lock, backend, factoryVars, resolverVars, zkNode, watchers, cache, wName,
                    wpc, ctxDone, chanVars,
                    wInst, backoff, delays, resynced, recvLast, ghostVars, got, ret,
                    budget >>

\* The goroutine of Register returns on ctx.Done (lines 70-71); when the
\* channel is closed as well, select takes either case.
EtcdKeepAliveCancelled(l) ==
    /\ leases[l].loop = "run"
    /\ leases[l].ctxDone
    /\ leases' = [leases EXCEPT
                     ![l].loop = IF leases[l].ka = "closed" THEN "raced" ELSE "cancelled"]
    /\ UNCHANGED << lock, backend, factoryVars, resolverVars, storeVars, watchers, cache,
                    wName, wpc, ctxDone, chanVars,
                    loopVars, recvLast, ghostVars, got, keyLease, ret, budget >>

\* The caller cancels the context it passed to Register.
EtcdRegisterCancel(l) ==
    /\ leases[l].loop = "run"
    /\ ~leases[l].ctxDone
    /\ budget.env > 0
    /\ leases' = [leases EXCEPT ![l].ctxDone = TRUE]
    /\ budget' = [budget EXCEPT !.env = @ - 1]
    /\ UNCHANGED << lock, backend, factoryVars, resolverVars, storeVars, watchers, cache,
                    wName, wpc, ctxDone, chanVars,
                    loopVars, recvLast, ghostVars, got, keyLease, ret >>

\* The keep-alive of lease l fails on the client side: its channel is
\* closed while the lease is still live on the server.
EtcdKeepAliveFail(l) ==
    /\ leases[l].ka = "open"
    /\ CanSpend("faults")
    /\ leases' = [leases EXCEPT ![l].ka = "closed"]
    /\ Spend("faults")
    /\ UNCHANGED << lock, backend, factoryVars, resolverVars, storeVars, watchers, cache,
                    wName, wpc, ctxDone, chanVars,
                    loopVars, recvLast, ghostVars, got, keyLease, ret >>

\* Lease l expires on the server (its TTL lapses): etcd deletes the keys
\* attached to it, and the keep-alive channel is closed.
EtcdLeaseExpire(l) ==
    /\ leases[l].state = "live"
    /\ budget.env > 0
    /\ leases' = revoke(leases, l)
    /\ services' = dropKeys(services, l)
    /\ keyLease' = dropAttached(keyLease, l)
    /\ stream' = notifyAll(stream, Emptied(services, services'))
    /\ regd' = { i \in regd : keyLease[i.Name][i.Address] # l }
    /\ budget' = [budget EXCEPT !.env = @ - 1]
    /\ UNCHANGED << lock, backend, factoryVars, resolverVars, zkNode, watchers, cache, wName,
                    wpc, ctxDone, chanVars,
                    wInst, backoff, delays, resynced, recvLast, everReg, lastListed,
                    got, ret >>

\* EtcdRegistry.Watch, lines 89-92 and 173: make the channel, start the
\* goroutine and return.
EtcdWatch(w, n) ==
    /\ backend = "etcd"
    /\ NextSub(w)
    /\ wName' = [wName EXCEPT ![w] = n]
    /\ wpc' = [wpc EXCEPT ![w] = "e_load"]
    /\ Spend("subs")
    /\ UNCHANGED << lock, backend, factoryVars, resolverVars, leaseVars, storeVars, watchers,
                    cache, ctxDone, chanVars, loopVars,
                    recvLast, ghostVars, got >>

\* The goroutine returns: the deferred close(out) runs (line 93).
closeOut(w) ==
    /\ closes' = [closes EXCEPT ![w] = @ + 1]
    /\ wpc' = [wpc EXCEPT ![w] = "done"]

\* The goroutine is before line 140: its backoff is not set yet.
Initial(w) == backoff[w] = 0

\* A backoff that doubles without the cap of lines 167-169.
nextBackoffUncapped(b) == b * BackoffFactor

\* The backoff after a sleep (lines 166-169).
nextBackoff(b) ==
    IF b * BackoffFactor > BackoffCap THEN BackoffCap ELSE b * BackoffFactor

\* The delays slept so far, kept up to the length the budget allows.
logDelay(d, x) == IF Len(d) < budget.log THEN Append(d, x) ELSE d

\* The range loop is left (break, or the stream is closed); the goroutine
\* sleeps for the backoff, updates it and is back at the head of the for
\* loop (lines 163-170).
breakAndSleep(w) ==
    /\ stream' = [stream EXCEPT ![w] = NoStream]
    /\ resynced' = [resynced EXCEPT ![w] = FALSE]
    /\ delays' = [delays EXCEPT ![w] = logDelay(@, backoff[w])]
    /\ backoff' = [backoff EXCEPT ![w] = nextBackoff(@)]
    /\ wpc' = [wpc EXCEPT ![w] = "e_top"]

\* loadInstances succeeds (lines 130 and 154).
EtcdLoad(w) ==
    /\ wpc[w] = "e_load"
    /\ ~ctxDone[w]
    /\ wInst' = [wInst EXCEPT ![w] = loadInstances(services, wName[w])]
    /\ lastListed' = [lastListed EXCEPT ![wName[w]] = loadInstances(services, wName[w])]
    /\ resynced' = [resynced EXCEPT ![w] = TRUE]
    /\ wpc' = [wpc EXCEPT ![w] = "e_cache"]
    /\ UNCHANGED << lock, backend, factoryVars, resolverVars, leaseVars, storeVars, watchers,
                    cache, wName, ctxDone, chanVars,
                    backoff, stream, delays, recvLast, regd, everReg, got, budget >>

\* Where the goroutine goes when loadInstances fails: it returns from the
\* first listing (lines 131-133) and breaks out of the range loop from a
\* later one (lines 155-157).
loadFailed(w) ==
    IF Initial(w)
    THEN /\ closeOut(w)
         /\ UNCHANGED << stream, resynced, delays, backoff >>
    ELSE /\ breakAndSleep(w)
         /\ UNCHANGED closes

\* loadInstances fails because the context is cancelled.
EtcdLoadCancelled(w) ==
    /\ wpc[w] = "e_load"
    /\ ctxDone[w]
    /\ loadFailed(w)
    /\ UNCHANGED << lock, backend, factoryVars, resolverVars, leaseVars, storeVars, watchers,
                    cache, wName, ctxDone, chan,
                    sentOnClosed, wInst, recvLast, ghostVars, got, budget >>

\* loadInstances fails because the backend does not answer the Get.
EtcdLoadErr(w) ==
    /\ wpc[w] = "e_load"
    /\ ~ctxDone[w]
    /\ CanSpend("faults")
    /\ Spend("faults")
    /\ loadFailed(w)
    /\ UNCHANGED << lock, backend, factoryVars, resolverVars, leaseVars, storeVars, watchers,
                    cache, wName, ctxDone, chan,
                    sentOnClosed, wInst, recvLast, ghostVars, got >>

\* sendInstances (lines 121-128): whether the select can take the send case,
\* and whether it can take another case (ctx.Done or default).
maySend(w) == Len(chan[w]) < EtcdChanCap
maySkip(w) == ctxDone[w] \/ Len(chan[w]) >= EtcdChanCap

sendInstances(w) ==
    \/ /\ maySend(w)
       /\ chan' = [chan EXCEPT ![w] = Append(@, wInst[w])]
       /\ sentOnClosed' = IF closes[w] > 0 THEN sentOnClosed \cup {w} ELSE sentOnClosed
    \/ /\ maySkip(w)
       /\ UNCHANGED << chan, sentOnClosed >>

\* The cache update and sendInstances (lines 135-138 and 159-162), and after
\* the first of them line 140.
EtcdCache(w) ==
    /\ wpc[w] = "e_cache"
    /\ cache' = [cache EXCEPT ![wName[w]] = wInst[w]]
    /\ sendInstances(w)
    /\ wInst' = [wInst EXCEPT ![w] = <<>>]
    /\ IF Initial(w)
       THEN /\ backoff' = [backoff EXCEPT ![w] = BackoffStart]
            /\ wpc' = [wpc EXCEPT ![w] = "e_top"]
       ELSE /\ wpc' = [wpc EXCEPT ![w] = "e_range"]
            /\ UNCHANGED backoff
    /\ UNCHANGED << lock, backend, factoryVars, resolverVars, leaseVars, storeVars, watchers,
                    wName, ctxDone, closes, stream,
                    delays, resynced, recvLast, ghostVars, got, budget >>

\* The head of the for loop (lines 143-149): return when the context is
\* done, otherwise open a watch stream on the prefix.
EtcdTop(w) ==
    /\ wpc[w] = "e_top"
    /\ IF ctxDone[w]
       THEN /\ closeOut(w)
            /\ UNCHANGED stream
       ELSE /\ stream' = [stream EXCEPT ![w] = NewStream]
            /\ wpc' = [wpc EXCEPT ![w] = "e_range"]
            /\ UNCHANGED closes
    /\ UNCHANGED << lock, backend, factoryVars, resolverVars, leaseVars, storeVars, watchers,
                    cache, wName, ctxDone, chan,
                    sentOnClosed, wInst, backoff, delays, resynced, recvLast,
                    ghostVars, got, budget >>

\* The range loop receives a watch response and starts its backoff anew.
EtcdEventResetBackoff(w) ==
    /\ wpc[w] = "e_range"
    /\ stream[w].pending > 0
    /\ ~stream[w].failed
    /\ stream' = [stream EXCEPT ![w].pending = @ - 1]
    /\ backoff' = [backoff EXCEPT ![w] = BackoffStart]
    /\ wpc' = [wpc EXCEPT ![w] = "e_load"]
    /\ UNCHANGED << lock, backend, factoryVars, resolverVars, leaseVars, storeVars, watchers,
                    cache, wName, ctxDone, chanVars,
                    wInst, delays, resynced, recvLast, ghostVars, got,
                    budget >>

\* The range loop receives a watch response without error (lines 150-153).
EtcdEvent(w) ==
    /\ wpc[w] = "e_range"
    /\ stream[w].pending > 0
    /\ ~stream[w].failed
    /\ stream' = [stream EXCEPT ![w].pending = @ - 1]
    /\ wpc' = [wpc EXCEPT ![w] = "e_load"]
    /\ UNCHANGED << lock, backend, factoryVars, resolverVars, leaseVars, storeVars, watchers,
                    cache, wName, ctxDone, chanVars,
                    wInst, backoff, delays, resynced, recvLast, ghostVars, got,
                    budget >>

\* The range loop ends: the stream delivered an error or was closed, which
\* the cancelled context also causes (lines 150-152, 163-170).
EtcdBreak(w) ==
    /\ wpc[w] = "e_range"
    /\ stream[w].failed \/ ctxDone[w]
    /\ breakAndSleep(w)
    /\ UNCHANGED << lock, backend, factoryVars, resolverVars, leaseVars, storeVars, watchers,
                    cache, wName, ctxDone, chanVars,
                    wInst, recvLast, ghostVars, got, budget >>

\* The etcd watch stream of subscription w fails; responses it had not
\* delivered are lost.
EtcdStreamFail(w) ==
    /\ backend = "etcd"
    /\ stream[w].open
    /\ ~stream[w].failed
    /\ CanSpend("faults")
    /\ stream' = [stream EXCEPT ![w] = [open |-> TRUE, pending |-> 0, failed |-> TRUE]]
    /\ Spend("faults")
    /\ UNCHANGED << lock, backend, factoryVars, resolverVars, leaseVars, storeVars, watchers,
                    cache, wName, wpc, ctxDone,
                    chanVars, wInst, backoff, delays, resynced, recvLast, ghostVars,
                    got >>

\* The result of GetServiceInstances of the etcd and ZooKeeper backends
\* (etcd lines 184-188, ZooKeeper lines 122-126): a new list holding the
\* elements of the cache entry.
copyOf(n, instances) == [name |-> n, val |-> instances, alias |-> FALSE]

EtcdGetServiceInstances(n) ==
    /\ backend = "etcd"
    /\ CanSpend("lookups")
    /\ got' = copyOf(n, cache[n])
    /\ Spend("lookups")
    /\ UNCHANGED << lock, backend, factoryVars, resolverVars, leaseVars, storeVars, watchers,
                    cache, wName, wpc, ctxDone,
                    chanVars, loopVars, recvLast, ghostVars >>

\* ---------------------------------------------------- ZooKeeper backend

\* The data ZkRegistry.Register stores in the ephemeral node: the address.
ZkData(i) == ServiceInfo("", i.Address, "", {})

\* A change of the children of {root}/{n}, or the loss of the session,
\* fires every one-shot children watch set on that node.
fireWatches(st, n) ==
    [w \in Subs |->
        IF st[w].open /\ wName[w] = n THEN [st[w] EXCEPT !.pending = 1] ELSE st[w]]

\* Another client creates the znode {root}/{n}, under which the instances
\* of the service are registered.
ZkCreateServiceNode(n) ==
    /\ backend = "zk"
    /\ ~zkNode[n]
    /\ budget.env > 0
    /\ zkNode' = [zkNode EXCEPT ![n] = TRUE]
    /\ budget' = [budget EXCEPT !.env = @ - 1]
    /\ UNCHANGED << lock, backend, factoryVars, resolverVars, leaseVars, services, watchers,
                    cache, wName, wpc, ctxDone,
                    chanVars, loopVars, recvLast, ghostVars, got >>

\* ZkRegistry.Register: Exists, Delete of an existing node, Create of the
\* ephemeral node; Create fails when {root}/{service} does not exist.
ZkRegister(i) ==
    /\ backend = "zk"
    /\ CanSpend("ops")
    /\ IF zkNode[i.Name]
       THEN /\ services' = [services EXCEPT ![i.Name][i.Address] = ZkData(i)]
            /\ stream' = fireWatches(stream, i.Name)
            /\ regd' = OtherKeys(i) \cup {i}
            /\ everReg' = everReg \cup {i.Name}
       ELSE UNCHANGED << services, stream, regd, everReg >>
    /\ Spend("ops")
    /\ UNCHANGED << lock, backend, factoryVars, resolverVars, leaseVars, zkNode, watchers,
                    cache, wName, wpc, ctxDone, chanVars,
                    wInst, backoff, delays, resynced, recvLast, lastListed, got >>

\* ZkRegistry.Unregister: Delete of the node, an error when there is none.
ZkUnregister(i) ==
    /\ backend = "zk"
    /\ CanSpend("ops")
    /\ IF services[i.Name][i.Address] # NoInfo
       THEN /\ services' = [services EXCEPT ![i.Name][i.Address] = NoInfo]
            /\ stream' = fireWatches(stream, i.Name)
            /\ regd' = OtherKeys(i)
       ELSE UNCHANGED << services, stream, regd >>
    /\ Spend("ops")
    /\ UNCHANGED everReg
    /\ UNCHANGED << lock, backend, factoryVars, resolverVars, leaseVars, zkNode, watchers,
                    cache, wName, wpc, ctxDone, chanVars,
                    wInst, backoff, delays, resynced, recvLast, lastListed, got >>

\* ZkRegistry.Watch, lines 71-73 and 112: make the unbuffered channel, start
\* the goroutine and return.
ZkWatch(w, n) ==
    /\ backend = "zk"
    /\ NextSub(w)
    /\ wName' = [wName EXCEPT ![w] = n]
    /\ wpc' = [wpc EXCEPT ![w] = "z_list"]
    /\ Spend("subs")
    /\ UNCHANGED << lock, backend, factoryVars, resolverVars, leaseVars, storeVars, watchers,
                    cache, ctxDone, chanVars, loopVars,
                    recvLast, ghostVars, got >>

\* ChildrenW succeeds (line 76): the children of the service node, in any
\* order, and a one-shot watch on them.
ZkList(w) ==
    /\ wpc[w] = "z_list"
    /\ zkNode[wName[w]]
    /\ \E o \in Orderings(Registered(services, wName[w])) :
          wInst' = [wInst EXCEPT ![w] = [k \in 1..Len(o) |-> ServiceInstance(o[k], {})]]
    /\ stream' = [stream EXCEPT ![w] = NewStream]
    /\ wpc' = [wpc EXCEPT ![w] = "z_get"]
    /\ UNCHANGED << lock, backend, factoryVars, resolverVars, leaseVars, storeVars, watchers,
                    cache, wName, ctxDone, chanVars,
                    backoff, delays, resynced, recvLast, ghostVars, got, budget >>

\* ChildrenW fails because the service node does not exist (lines 77-80).
ZkListNoNode(w) ==
    /\ wpc[w] = "z_list"
    /\ ~zkNode[wName[w]]
    /\ wpc' = [wpc EXCEPT ![w] = "z_sleep"]
    /\ UNCHANGED << lock, backend, factoryVars, resolverVars, leaseVars, storeVars, watchers,
                    cache, wName, ctxDone, chanVars,
                    loopVars, recvLast, ghostVars, got, budget >>

\* ChildrenW fails because the server does not answer (lines 77-80).
ZkListErr(w) ==
    /\ wpc[w] = "z_list"
    /\ zkNode[wName[w]]
    /\ CanSpend("faults")
    /\ Spend("faults")
    /\ wpc' = [wpc EXCEPT ![w] = "z_sleep"]
    /\ UNCHANGED << lock, backend, factoryVars, resolverVars, leaseVars, storeVars, watchers,
                    cache, wName, ctxDone, chanVars,
                    loopVars, recvLast, ghostVars, got >>

\* time.Sleep(2s) and continue (lines 78-79).
ZkSleep(w) ==
    /\ wpc[w] = "z_sleep"
    /\ delays' = [delays EXCEPT ![w] = logDelay(@, ZkRetryDelay)]
    /\ wpc' = [wpc EXCEPT ![w] = "z_list"]
    /\ UNCHANGED << lock, backend, factoryVars, resolverVars, leaseVars, storeVars, watchers,
                    cache, wName, ctxDone, chanVars,
                    wInst, backoff, stream, resynced, recvLast, ghostVars, got,
                    budget >>

\* The loop over the children (lines 82-91): one instance per child whose
\* Get succeeds, holding the node's data as its address; the children in
\* failed are those whose Get returns an error.
zkInstances(children, svc, n, failed) ==
    LET ok == SelectSeq(children,
                  LAMBDA c : svc[n][c.Address] # NoInfo /\ c.Address \notin failed)
    IN [k \in 1..Len(ok) |-> ServiceInstance(svc[n][ok[k].Address].Address, {})]

ZkGet(w) ==
    /\ wpc[w] = "z_get"
    /\ wInst' = [wInst EXCEPT ![w] = zkInstances(@, services, wName[w], {})]
    /\ lastListed' = [lastListed EXCEPT ![wName[w]] = wInst'[w]]
    /\ resynced' = [resynced EXCEPT ![w] = TRUE]
    /\ wpc' = [wpc EXCEPT ![w] = "z_cache"]
    /\ UNCHANGED << lock, backend, factoryVars, resolverVars, leaseVars, storeVars, watchers,
                    cache, wName, ctxDone, chanVars,
                    backoff, stream, delays, recvLast, regd, everReg, got, budget >>

\* As ZkGet, with the Get of one existing child failing: the child is left
\* out of the snapshot (line 86).
ZkGetErr(w, a) ==
    /\ wpc[w] = "z_get"
    /\ services[wName[w]][a] # NoInfo
    /\ a \in { c.Address : c \in Range(wInst[w]) }
    /\ CanSpend("faults")
    /\ Spend("faults")
    /\ wInst' = [wInst EXCEPT ![w] = zkInstances(@, services, wName[w], {a})]
    /\ lastListed' = [lastListed EXCEPT ![wName[w]] = wInst'[w]]
    /\ resynced' = [resynced EXCEPT ![w] = TRUE]
    /\ wpc' = [wpc EXCEPT ![w] = "z_cache"]
    /\ UNCHANGED << lock, backend, factoryVars, resolverVars, leaseVars, storeVars, watchers,
                    cache, wName, ctxDone, chanVars,
                    backoff, stream, delays, recvLast, regd, everReg, got >>

\* The cache update (lines 93-95).
ZkCache(w) ==
    /\ wpc[w] = "z_cache"
    /\ cache' = [cache EXCEPT ![wName[w]] = wInst[w]]
    /\ wpc' = [wpc EXCEPT ![w] = "z_send"]
    /\ UNCHANGED << lock, backend, factoryVars, resolverVars, leaseVars, storeVars, watchers,
                    wName, ctxDone, chanVars, loopVars,
                    recvLast, ghostVars, got, budget >>

\* A send that gives the snapshot up when no consumer is receiving.
ZkSendOrDrop(w) ==
    /\ wpc[w] = "z_send"
    /\ wInst' = [wInst EXCEPT ![w] = <<>>]
    /\ wpc' = [wpc EXCEPT ![w] = "z_wait"]
    /\ UNCHANGED << lock, backend, factoryVars, resolverVars, leaseVars, storeVars, watchers,
                    cache, wName, ctxDone, chanVars, backoff, stream, delays, resynced,
                    recvLast, ghostVars, got, budget >>

\* The send on the unbuffered channel (lines 97-98) meets the consumer's
\* receive.
ZkSend(w) ==
    /\ wpc[w] = "z_send"
    /\ Receiving(w)
    /\ consume(w, wInst[w])
    /\ sentOnClosed' = IF closes[w] > 0 THEN sentOnClosed \cup {w} ELSE sentOnClosed
    /\ wInst' = [wInst EXCEPT ![w] = <<>>]
    /\ wpc' = [wpc EXCEPT ![w] = "z_wait"]
    /\ UNCHANGED << lock, backend, factoryVars, addrs, updates, nClose, loops, leaseVars,
                    storeVars, watchers, cache, wName, ctxDone, chan, closes,
                    backoff, stream, delays, resynced, ghostVars, got, budget >>

\* The goroutine returns from one of its selects on ctx.Done (lines 99-100
\* and 106-107): the deferred close(ch) runs (line 74).
ZkCancelled(w) ==
    /\ wpc[w] \in {"z_send", "z_wait"}
    /\ ctxDone[w]
    /\ closeOut(w)
    /\ wInst' = [wInst EXCEPT ![w] = <<>>]
    /\ stream' = [stream EXCEPT ![w] = NoStream]
    /\ UNCHANGED << lock, backend, factoryVars, resolverVars, leaseVars, storeVars, watchers,
                    cache, wName, ctxDone, chan,
                    sentOnClosed, backoff, delays, resynced, recvLast, ghostVars,
                    got, budget >>

\* The one-shot watch has fired (lines 104-105): list again.
ZkEvent(w) ==
    /\ wpc[w] = "z_wait"
    /\ stream[w].pending > 0
    /\ stream' = [stream EXCEPT ![w] = NoStream]
    /\ resynced' = [resynced EXCEPT ![w] = FALSE]
    /\ wpc' = [wpc EXCEPT ![w] = "z_list"]
    /\ UNCHANGED << lock, backend, factoryVars, resolverVars, leaseVars, storeVars, watchers,
                    cache, wName, ctxDone, chanVars,
                    wInst, backoff, delays, recvLast, ghostVars, got, budget >>

\* The connection to the server is lost: the watch of subscription w fires
\* with an error event.
ZkWatchFail(w) ==
    /\ backend = "zk"
    /\ stream[w].open
    /\ stream[w].pending = 0
    /\ CanSpend("faults")
    /\ stream' = [stream EXCEPT ![w].pending = 1]
    /\ Spend("faults")
    /\ UNCHANGED << lock, backend, factoryVars, resolverVars, leaseVars, storeVars, watchers,
                    cache, wName, wpc, ctxDone,
                    chanVars, wInst, backoff, delays, resynced, recvLast, ghostVars,
                    got >>

ZkGetServiceInstances(n) ==
    /\ backend = "zk"
    /\ CanSpend("lookups")
    /\ got' = copyOf(n, cache[n])
    /\ Spend("lookups")
    /\ UNCHANGED << lock, backend, factoryVars, resolverVars, leaseVars, storeVars, watchers,
                    cache, wName, wpc, ctxDone,
                    chanVars, loopVars, recvLast, ghostVars >>

\* ------------------------------------------------ callers of the registry

\* The caller of Watch holds the channel once Watch has returned.
Returned(w) == wpc[w] \notin {"none", "m_send"}

\* The consumer receives the next buffered value of its channel.
Recv(w) ==
    /\ Returned(w)
    /\ Receiving(w)
    /\ chan[w] # <<>>
    /\ consume(w, Head(chan[w]))
    /\ chan' = [chan EXCEPT ![w] = Tail(@)]
    /\ UNCHANGED << lock, backend, factoryVars, addrs, updates, nClose, loops, leaseVars,
                    storeVars, watchers, cache, wName, wpc, ctxDone, closes,
                    sentOnClosed, loopVars, ghostVars, got, budget >>

\* The caller cancels the context it passed to Watch.
Cancel(w) ==
    /\ wpc[w] # "none"
    /\ ~ctxDone[w]
    /\ budget.env > 0
    /\ ctxDone' = [ctxDone EXCEPT ![w] = TRUE]
    /\ budget' = [budget EXCEPT !.env = @ - 1]
    /\ UNCHANGED << lock, backend, factoryVars, resolverVars, leaseVars, storeVars, watchers,
                    cache, wName, wpc, chanVars,
                    loopVars, recvLast, ghostVars, got >>

\* ------------------------------------------------------------ gRPC resolver

\* ServiceResolverBuilder.Build over subscription w, lines 94-97: the new
\* context and the call of Registry.Watch, which the registry carries out.
Build(w, n) ==
    /\ rpc[w] = "none"
    /\ MemWatch(w, n) \/ EtcdWatch(w, n) \/ ZkWatch(w, n)

\* Build without the cancel of line 99.
BuildErrNoCancel(w, n) ==
    /\ backend = "other"
    /\ rpc[w] = "none"
    /\ NextSub(w)
    /\ wName' = [wName EXCEPT ![w] = n]
    /\ rpc' = [rpc EXCEPT ![w] = "failed"]
    /\ Spend("subs")
    /\ UNCHANGED << lock, backend, factoryVars, addrs, updates, rcvd, nClose, loops, leaseVars,
                    storeVars, watchers, cache, wpc, ctxDone, chanVars, loopVars,
                    recvLast, ghostVars, got >>

\* Build over a Registry whose Watch returns an error (lines 97-101): the
\* context is cancelled and the error returned.
BuildErr(w, n) ==
    /\ backend = "other"
    /\ rpc[w] = "none"
    /\ NextSub(w)
    /\ wName' = [wName EXCEPT ![w] = n]
    /\ ctxDone' = [ctxDone EXCEPT ![w] = TRUE]
    /\ rpc' = [rpc EXCEPT ![w] = "failed"]
    /\ Spend("subs")
    /\ UNCHANGED << lock, backend, factoryVars, addrs, updates, rcvd, nClose, loops, leaseVars,
                    storeVars, watchers, cache, wpc, chanVars, loopVars, recvLast,
                    ghostVars, got >>

\* Watch has returned the channel: Build makes the resolver, starts its
\* watch loop and returns (lines 103-111).
BuildReturn(w) ==
    /\ rpc[w] = "none"
    /\ Returned(w)
    /\ rpc' = [rpc EXCEPT ![w] = "run"]
    /\ loops' = [loops EXCEPT ![w] = @ + 1]
    /\ UNCHANGED << lock, backend, factoryVars, addrs, updates, rcvd, nClose, leaseVars,
                    storeVars, watchers, cache, wName, wpc, ctxDone, chanVars, loopVars,
                    recvLast, ghostVars, got, budget >>

\* The address list the loop builds from a snapshot (lines 128-131).
addrList(snap) == [k \in 1..Len(snap) |-> snap[k].Address]

\* The loop's update, with no UpdateState call for an empty snapshot.
watchUpdateSkipEmpty(w) ==
    /\ rpc[w] = "update"
    /\ addrs' = [addrs EXCEPT ![w] = addrList(recvLast[w])]
    /\ updates' = [updates EXCEPT ![w] =
                      IF recvLast[w] = <<>> THEN @ ELSE Append(@, addrList(recvLast[w]))]
    /\ rpc' = [rpc EXCEPT ![w] = "run"]
    /\ UNCHANGED << lock, backend, factoryVars, rcvd, nClose, loops, leaseVars, storeVars,
                    watchers, cache, wName, wpc, ctxDone, chanVars, loopVars, recvLast,
                    ghostVars, got, budget >>

\* serviceResolver.watch, lines 133-137: store the address list and call
\* cc.UpdateState with it, then select again.
watchUpdate(w) ==
    /\ rpc[w] = "update"
    /\ addrs' = [addrs EXCEPT ![w] = addrList(recvLast[w])]
    /\ updates' = [updates EXCEPT ![w] = Append(@, addrList(recvLast[w]))]
    /\ rpc' = [rpc EXCEPT ![w] = "run"]
    /\ UNCHANGED << lock, backend, factoryVars, rcvd, nClose, loops, leaseVars, storeVars,
                    watchers, cache, wName, wpc, ctxDone, chanVars, loopVars, recvLast,
                    ghostVars, got, budget >>

\* serviceResolver.watch, lines 121-122: the select takes ctx.Done and the
\* loop returns, whatever the channel holds.
watchCtxDone(w) ==
    /\ rpc[w] = "run"
    /\ ctxDone[w]
    /\ rpc' = [rpc EXCEPT ![w] = "done"]
    /\ UNCHANGED << lock, backend, factoryVars, addrs, updates, rcvd, nClose, loops, leaseVars,
                    storeVars, watchers, cache, wName, wpc, ctxDone, chanVars, loopVars,
                    recvLast, ghostVars, got, budget >>

\* A loop that selects again when the receive reports the channel closed.
watchChanClosedRetry(w) ==
    /\ rpc[w] = "run"
    /\ closes[w] > 0
    /\ chan[w] = <<>>
    /\ UNCHANGED vars

\* serviceResolver.watch, lines 123-126: the receive reports the channel
\* closed (and drained) and the loop returns.
watchChanClosed(w) ==
    /\ rpc[w] = "run"
    /\ closes[w] > 0
    /\ chan[w] = <<>>
    /\ rpc' = [rpc EXCEPT ![w] = "closed"]
    /\ UNCHANGED << lock, backend, factoryVars, addrs, updates, rcvd, nClose, loops, leaseVars,
                    storeVars, watchers, cache, wName, wpc, ctxDone, chanVars, loopVars,
                    recvLast, ghostVars, got, budget >>

\* Build has returned the resolver of subscription w to its caller.
Built(w) == rpc[w] \in {"run", "update", "done", "closed"}

\* A Close that may run once only.
CloseOnce(w) ==
    /\ Built(w)
    /\ ~ctxDone[w]
    /\ CanSpend("calls")
    /\ ctxDone' = [ctxDone EXCEPT ![w] = TRUE]
    /\ nClose' = [nClose EXCEPT ![w] = @ + 1]
    /\ Spend("calls")
    /\ UNCHANGED << lock, backend, factoryVars, rpc, addrs, updates, rcvd, loops, leaseVars,
                    storeVars, watchers, cache, wName, wpc, chanVars, loopVars, recvLast,
                    ghostVars, got >>

\* serviceResolver.Close: r.cancel(), which does nothing after its first call.
Close(w) ==
    /\ Built(w)
    /\ CanSpend("calls")
    /\ ctxDone' = [ctxDone EXCEPT ![w] = TRUE]
    /\ nClose' = [nClose EXCEPT ![w] = @ + 1]
    /\ Spend("calls")
    /\ UNCHANGED << lock, backend, factoryVars, rpc, addrs, updates, rcvd, loops, leaseVars,
                    storeVars, watchers, cache, wName, wpc, chanVars, loopVars, recvLast,
                    ghostVars, got >>

\* A ResolveNow that pushes the stored addresses again.
ResolveNowPush(w) ==
    /\ Built(w)
    /\ CanSpend("calls")
    /\ updates' = [updates EXCEPT ![w] = Append(@, addrs[w])]
    /\ Spend("calls")
    /\ UNCHANGED << lock, backend, factoryVars, rpc, addrs, rcvd, nClose, loops, leaseVars,
                    storeVars, watchers, cache, wName, wpc, ctxDone, chanVars, loopVars,
                    recvLast, ghostVars, got >>

\* serviceResolver.ResolveNow: an empty body.
ResolveNow(w) ==
    /\ Built(w)
    /\ CanSpend("calls")
    /\ Spend("calls")
    /\ UNCHANGED << lock, backend, factoryVars, resolverVars, leaseVars, storeVars, watchers,
                    cache, wName, wpc, ctxDone, chanVars, loopVars, recvLast, ghostVars,
                    got >>

\* ------------------------------------------------------ connection factory

\* Strings as sequences of characters.
MemoryName == <<"m", "e", "m", "o", "r", "y">>
EtcdName == <<"g", "o", "-", "b", "o", "x", "-", "e", "t", "c", "d">>
ZkName ==
    <<"g", "o", "-", "b", "o", "x", "-", "z", "o", "o", "k", "e", "e", "p", "e", "r">>

\* Registry.Name of the three backends.
Name(b) ==
    CASE b = "memory" -> MemoryName
      [] b = "etcd" -> EtcdName
      [] b = "zk" -> ZkName

\* A Scheme that is the same for every registry.
SchemeShared(b) == <<"g", "o", "-", "b", "o", "x">>

\* ServiceResolverBuilder.Scheme: the registry's Name.
Scheme(b) == Name(b)

\* The characters of a service name, and the service name of characters.
ServiceChars(n) == IF n = "s1" THEN <<"s", "1">> ELSE <<"s", "2">>
ServiceOf(cs) == CHOOSE n \in Names : ServiceChars(n) = cs

\* The target NewGRPCConn passes to grpc.NewClient.
Target(b, n) == Name(b) \o <<":", "/", "/", "/">> \o ServiceChars(n)

Lower == {"a", "b", "c", "d", "e", "g", "k", "m", "o", "p", "r", "s", "t", "x", "y", "z"}
Upper == {"G", "B", "M"}
Digits == {"0", "1", "2"}
toLower(c) == CASE c = "G" -> "g" [] c = "B" -> "b" [] c = "M" -> "m" [] OTHER -> c

\* url.Parse's scan for the scheme, as grpc.NewClient parses the target:
\* the index of the colon that ends the scheme, 0 when there is no scheme.
RECURSIVE schemeEnd(_, _)
schemeEnd(t, i) ==
    IF i > Len(t) THEN 0
    ELSE IF t[i] \in Lower \cup Upper THEN schemeEnd(t, i + 1)
    ELSE IF t[i] \in Digits \cup {"+", "-", "."}
         THEN IF i = 1 THEN 0 ELSE schemeEnd(t, i + 1)
    ELSE IF t[i] = ":" /\ i > 1 THEN i
    ELSE 0

\* The scheme of the parsed target, in lower case; empty without a scheme.
parsedScheme(t) ==
    IF schemeEnd(t, 1) = 0 THEN <<>>
    ELSE [k \in 1..(schemeEnd(t, 1) - 1) |-> toLower(t[k])]

\* The first index from i on that holds a slash, Len(t) + 1 without one.
RECURSIVE nextSlash(_, _)
nextSlash(t, i) ==
    IF i > Len(t) \/ t[i] = "/" THEN i ELSE nextSlash(t, i + 1)

\* target.Endpoint(): the path after the authority, without its first slash.
Endpoint(t) ==
    LET rest == SubSeq(t, schemeEnd(t, 1) + 1, Len(t))
        path == IF Len(rest) >= 2 /\ rest[1] = "/" /\ rest[2] = "/"
                THEN SubSeq(rest, nextSlash(rest, 3), Len(rest))
                ELSE rest
    IN IF path # <<>> /\ path[1] = "/" THEN Tail(path) ELSE path

\* NewGRPCConn(ctx, n, registry) and the client's first resolution: gRPC
\* parses the target, takes the builder given to WithResolvers when its
\* Scheme is the target's scheme, and calls its Build with the target.
NewGRPCConn(w, n) ==
    /\ backend \in {"memory", "etcd", "zk"}
    /\ NextSub(w)
    /\ parsedScheme(Target(backend, n)) = Scheme(backend)
    /\ Build(w, ServiceOf(Endpoint(Target(backend, n))))

\* -------------------------------------------------------- registry factory

\* A selection that looks at opt.Type alone.
NewRegistryByType(o) ==
    IF ~o.isNil /\ o.Type = EtcdType THEN "etcd"
    ELSE IF ~o.isNil /\ o.Type = ZkType THEN "zk"
    ELSE "memory"

\* NewRegistry's switch: the constructor whose case is the first to hold.
NewRegistry(o) ==
    IF ~o.isNil /\ o.Type = EtcdType /\ o.Etcd # "nil" THEN "etcd"
    ELSE IF ~o.isNil /\ o.Type = ZkType /\ o.Zookeeper # "nil" THEN "zk"
    ELSE "memory"

\* NewRegistry(opt) returns the registry its constructor built.
NewRegistryOk ==
    /\ backend = "none"
    /\ ~made.called
    /\ made' = [called |-> TRUE, sel |-> NewRegistry(opt), failed |-> FALSE]
    /\ backend' = NewRegistry(opt)
    /\ UNCHANGED << lock, opt, resolverVars, leaseVars, storeVars, watchers, cache, wName,
                    wpc, ctxDone, chanVars, loopVars, recvLast, ghostVars, got,
                    budget >>

\* NewRegistry(opt) returns the error of NewEtcdRegistry (clientv3.New
\* failed) or of NewZkRegistry (zk.Connect or the Create of the root failed).
NewRegistryErr ==
    /\ backend = "none"
    /\ ~made.called
    /\ NewRegistry(opt) \in {"etcd", "zk"}
    /\ made' = [called |-> TRUE, sel |-> NewRegistry(opt), failed |-> TRUE]
    /\ UNCHANGED << lock, backend, opt, resolverVars, leaseVars, storeVars, watchers, cache,
                    wName, wpc, ctxDone, chanVars, loopVars, recvLast, ghostVars,
                    got, budget >>

\* --------------------------------------------------------------- Redis lock

\* Everything but the lock and the budget.
registryVars ==
    << backend, factoryVars, resolverVars, leaseVars, storeVars, watchers, cache, wName,
       wpc, ctxDone, chanVars, loopVars, recvLast, ghostVars, got >>

\* The goroutine the next successful Lock starts.
NextRenewer(g) ==
    /\ lock.renew[g] = "none"
    /\ \A h \in Renewers : h < g => lock.renew[h] # "none"

\* What a call of Lock or Unlock returns.
returns(l, op, ok, err) == [l EXCEPT !.op = op, !.ok = ok, !.err = err]

\* RedisLock.Lock, lines 342-360, when SET NX answers OK: the key is set
\* with the TTL, the new cancel function replaces l.cancelFunc, the wait
\* group is incremented and the goroutine started.
Lock(g) ==
    /\ lock.pc = "idle"
    /\ lock.key = "none"
    /\ NextRenewer(g)
    /\ CanSpend("ops")
    /\ lock' = returns([lock EXCEPT !.key = "mine", !.ttl = 1, !.cancelFunc = g,
                                    !.renew[g] = "run", !.wg = @ + 1],
                       "Lock", TRUE, FALSE)
    /\ Spend("ops")
    /\ UNCHANGED registryVars

\* Lock when the key exists: SET NX does not answer OK and Lock returns
\* false with the error of the client, nil or not (lines 350-352).
LockHeld ==
    /\ lock.pc = "idle"
    /\ lock.key # "none"
    /\ CanSpend("ops")
    /\ \E e \in BOOLEAN : lock' = returns(lock, "Lock", FALSE, e)
    /\ Spend("ops")
    /\ UNCHANGED registryVars

\* Lock when the command fails: false and the error (lines 350-352).
LockErr ==
    /\ lock.pc = "idle"
    /\ CanSpend("ops")
    /\ CanSpend("faults")
    /\ lock' = returns(lock, "Lock", FALSE, TRUE)
    /\ budget' = [budget EXCEPT !.ops = @ - 1, !.faults = @ - 1, !.env = @ - 1]
    /\ UNCHANGED registryVars

\* Unlock when l.cancelFunc is nil (lines 364-369).
UnlockNotHeld ==
    /\ lock.pc = "idle"
    /\ lock.cancelFunc = 0
    /\ CanSpend("ops")
    /\ lock' = returns(lock, "Unlock", FALSE, FALSE)
    /\ Spend("ops")
    /\ UNCHANGED registryVars

\* Unlock, lines 364-373: call l.cancelFunc, set it to nil and come to
\* l.wg.Wait(), l.mux held.
UnlockCancel ==
    /\ lock.pc = "idle"
    /\ lock.cancelFunc # 0
    /\ CanSpend("ops")
    /\ lock' = [lock EXCEPT
                   !.renew[lock.cancelFunc] = IF @ = "run" THEN "cancelled" ELSE @,
                   !.cancelFunc = 0, !.tries = 0, !.pc = "wait"]
    /\ Spend("ops")
    /\ UNCHANGED registryVars

\* l.wg.Wait() returns (line 373): the counter is zero.
UnlockWaited ==
    /\ lock.pc = "wait"
    /\ lock.wg = 0
    /\ lock' = [lock EXCEPT !.pc = "eval"]
    /\ UNCHANGED << registryVars, budget >>

\* The script of lines 375-390 runs: the key is deleted if it holds
\* l.value and Unlock returns true, otherwise false, both with a nil error.
UnlockEval ==
    /\ lock.pc = "eval"
    /\ lock' = returns([lock EXCEPT !.key = IF @ = "mine" THEN "none" ELSE @,
                                    !.ttl = IF lock.key = "mine" THEN 0 ELSE @,
                                    !.pc = "idle"],
                       "Unlock", lock.key = "mine", FALSE)
    /\ UNCHANGED << registryVars, budget >>

\* The Eval fails (lines 384-394): sleep and try again, and after the third
\* failure return false and the error.
UnlockEvalErr ==
    /\ lock.pc = "eval"
    /\ CanSpend("faults")
    /\ lock' = IF lock.tries + 1 = UnlockTries
               THEN returns([lock EXCEPT !.tries = @ + 1, !.pc = "idle"],
                            "Unlock", FALSE, TRUE)
               ELSE [lock EXCEPT !.tries = @ + 1]
    /\ Spend("faults")
    /\ UNCHANGED registryVars

\* startAutoRenew, lines 412-415: on a tick the script sets the TTL of the
\* key anew if the key holds l.value. The select may take the tick although
\* the context is cancelled.
RenewTick(g) ==
    /\ lock.renew[g] \in {"run", "cancelled"}
    /\ lock.key = "mine"
    /\ lock.ttl = 0
    /\ lock' = [lock EXCEPT !.ttl = 1]
    /\ UNCHANGED << registryVars, budget >>

\* startAutoRenew, lines 416-417 and 399: the context is done, the
\* goroutine returns and the deferred l.wg.Done() runs.
RenewExit(g) ==
    /\ lock.renew[g] = "cancelled"
    /\ lock' = [lock EXCEPT !.renew[g] = "done", !.wg = @ - 1]
    /\ UNCHANGED << registryVars, budget >>

\* Time passes in Redis: the TTL of the key runs down.
KeyAge ==
    /\ lock.key # "none"
    /\ lock.ttl = 1
    /\ budget.env > 0
    /\ lock' = [lock EXCEPT !.ttl = 0]
    /\ budget' = [budget EXCEPT !.env = @ - 1]
    /\ UNCHANGED registryVars

\* The key expires, or another client deletes it.
KeyExpire ==
    /\ lock.key # "none"
    /\ lock.ttl = 0
    /\ budget.env > 0
    /\ lock' = [lock EXCEPT !.key = "none"]
    /\ budget' = [budget EXCEPT !.env = @ - 1]
    /\ UNCHANGED registryVars

\* A RedisLock of another owner sets the free key.
OtherLock ==
    /\ lock.key = "none"
    /\ budget.env > 0
    /\ lock' = [lock EXCEPT !.key = "other", !.ttl = 1]
    /\ budget' = [budget EXCEPT !.env = @ - 1]
    /\ UNCHANGED registryVars

\* ---------------------------------------------------------- specifications

MemNext ==
    /\ backend = "memory"
    /\ \/ \E i \in Infos : MemRegister(i)
       \/ \E i \in Infos : MemUnregister(i)
       \/ \E w \in Subs, n \in Names : MemWatch(w, n)
       \/ \E w \in Subs : MemWatchSend(w)
       \/ \E w \in Subs : MemWatchClose(w)

EtcdNext ==
    /\ backend = "etcd"
    /\ \/ \E i \in Infos : EtcdRegister(i)
       \/ \E i \in Infos, l \in {0} \cup Leases : EtcdUnregister(i, l)
       \/ \E i \in Infos : EtcdRegisterGrantErr(i)
       \/ \E i \in Infos : EtcdRegisterPutErr(i)
       \/ \E i \in Infos : EtcdRegisterKeepAliveErr(i)
       \/ \E i \in Infos, l \in {0} \cup Leases : EtcdUnregisterErr(i, l)
       \/ \E l \in Leases : EtcdKeepAliveClosed(l)
       \/ \E l \in Leases : EtcdKeepAliveCancelled(l)
       \/ \E l \in Leases : EtcdRegisterCancel(l)
       \/ \E l \in Leases : EtcdKeepAliveFail(l)
       \/ \E l \in Leases : EtcdLeaseExpire(l)
       \/ \E w \in Subs, n \in Names : EtcdWatch(w, n)
       \/ \E w \in Subs : EtcdLoad(w)
       \/ \E w \in Subs : EtcdLoadCancelled(w)
       \/ \E w \in Subs : EtcdLoadErr(w)
       \/ \E w \in Subs : EtcdCache(w)
       \/ \E w \in Subs : EtcdTop(w)
       \/ \E w \in Subs : EtcdEvent(w)
       \/ \E w \in Subs : EtcdBreak(w)
       \/ \E w \in Subs : EtcdStreamFail(w)

\* The etcd registry without the failures of its calls and the events of
\* its leases: registrations and the goroutines of Watch.
EtcdCoreNext ==
    /\ backend = "etcd"
    /\ \/ \E i \in Infos : EtcdRegister(i)
       \/ \E i \in Infos, l \in {0} \cup Leases : EtcdUnregister(i, l)
       \/ \E w \in Subs, n \in Names : EtcdWatch(w, n)
       \/ \E w \in Subs : EtcdLoad(w)
       \/ \E w \in Subs : EtcdLoadCancelled(w)
       \/ \E w \in Subs : EtcdLoadErr(w)
       \/ \E w \in Subs : EtcdCache(w)
       \/ \E w \in Subs : EtcdTop(w)
       \/ \E w \in Subs : EtcdEvent(w)
       \/ \E w \in Subs : EtcdBreak(w)
       \/ \E w \in Subs : EtcdStreamFail(w)

ZkNext ==
    /\ backend = "zk"
    /\ \/ \E n \in Names : ZkCreateServiceNode(n)
       \/ \E i \in Infos : ZkRegister(i)
       \/ \E i \in Infos : ZkUnregister(i)
       \/ \E w \in Subs, n \in Names : ZkWatch(w, n)
       \/ \E w \in Subs : ZkList(w)
       \/ \E w \in Subs : ZkListNoNode(w)
       \/ \E w \in Subs : ZkListErr(w)
       \/ \E w \in Subs : ZkSleep(w)
       \/ \E w \in Subs : ZkGet(w)
       \/ \E w \in Subs, a \in Addrs : ZkGetErr(w, a)
       \/ \E w \in Subs : ZkCache(w)
       \/ \E w \in Subs : ZkSend(w)
       \/ \E w \in Subs : ZkCancelled(w)
       \/ \E w \in Subs : ZkEvent(w)
       \/ \E w \in Subs : ZkWatchFail(w)

LookupNext ==
    \/ \E n \in Names : MemGetServiceInstances(n)
    \/ \E n \in Names : EtcdGetServiceInstances(n)
    \/ \E n \in Names : ZkGetServiceInstances(n)

CallerNext ==
    \/ \E w \in Subs : Recv(w)
    \/ \E w \in Subs : Cancel(w)

Next == MemNext \/ EtcdNext \/ ZkNext \/ CallerNext

\* Every backend, with the calls and faults the bounds allow.
Init == InitWith({"memory", "etcd", "zk"}, MaxEnv, MaxSubs, MaxOps, MaxFaults, 0, MaxLog)
Spec == Init /\ [][Next]_vars

\* A step of the Watch call or goroutine of subscription w that needs no
\* fault of the backend.
LoopStep(w) ==
    \/ MemWatchSend(w) \/ MemWatchClose(w)
    \/ EtcdLoad(w) \/ EtcdLoadCancelled(w) \/ EtcdCache(w) \/ EtcdTop(w)
    \/ EtcdEvent(w) \/ EtcdBreak(w)
    \/ ZkList(w) \/ ZkListNoNode(w) \/ ZkSleep(w) \/ ZkGet(w) \/ ZkCache(w)
    \/ ZkCancelled(w) \/ ZkEvent(w)

\* Goroutines that can run do run, and the consumer of a channel keeps
\* receiving from it; the callers and the faults are free to stop.
Fairness ==
    \A w \in Subs : WF_vars(LoopStep(w)) /\ WF_vars(Recv(w)) /\ WF_vars(ZkSend(w))

FairSpec == Spec /\ Fairness

\* The ZooKeeper backend with its goroutines scheduled fairly.
ZkInit == InitWith({"zk"}, MaxEnv, MaxSubs, MaxOps, MaxFaults, 0, MaxLog)
ZkFairNext == ZkNext \/ \E w \in Subs : Cancel(w)
ZkFairSpec == ZkInit /\ [][ZkFairNext]_vars /\ Fairness

\* The memory backend with the lookups of its callers.
MemInit == InitWith({"memory"}, MaxEnv, MaxSubs, MaxOps, MaxFaults, MaxLookups, MaxLog)
MemLookupNext ==
    \/ MemNext
    \/ \E n \in Names : MemGetServiceInstances(n)
    \/ CallerNext
MemSpec == MemInit /\ [][MemLookupNext]_vars

\* The memory backend when every subscriber may be cancelled and registry
\* calls still follow.
MemCancelInit == InitWith({"memory"}, MaxSubs + 2, MaxSubs, 1, 0, 0, MaxLog)
MemCancelNext == MemNext \/ CallerNext
MemCancelSpec == MemCancelInit /\ [][MemCancelNext]_vars

\* One RedisLock and its key: the calls of its owner, its goroutines, and
\* Redis with its other clients. The goroutines that can run do run, and
\* so does a call of Unlock that can go on.
LockInit ==
    InitOf({"none"}, {NilOption}, "caller", MaxLocks + MaxEnv + 2, 0, MaxLocks + 1,
           UnlockTries, 0, 0, 0)
LockNext ==
    \/ \E g \in Renewers : Lock(g)
    \/ LockHeld
    \/ LockErr
    \/ UnlockNotHeld
    \/ UnlockCancel
    \/ UnlockWaited
    \/ UnlockEval
    \/ UnlockEvalErr
    \/ \E g \in Renewers : RenewTick(g)
    \/ \E g \in Renewers : RenewExit(g)
    \/ KeyAge
    \/ KeyExpire
    \/ OtherLock
LockFairness ==
    /\ \A g \in Renewers : WF_vars(RenewExit(g))
    /\ WF_vars(UnlockWaited)
    /\ WF_vars(UnlockEval)
LockSpec == LockInit /\ [][LockNext]_vars /\ LockFairness

\* The backends with the lookups of their callers.
LookupInit ==
    InitWith({"memory", "etcd", "zk"}, MaxEnv, MaxSubs, MaxOps, MaxFaults, MaxLookups,
             MaxLog)
LookupSpec == LookupInit /\ [][Next \/ LookupNext]_vars

\* One subscription of a networked backend whose watch fails again and
\* again, every delay of its loop recorded.
BackoffInit == InitWith({"etcd", "zk"}, MaxRetries + 3, 1, 1, MaxRetries, 0, MaxRetries)
BackoffNext == EtcdNext \/ ZkNext \/ CallerNext
BackoffSpec == BackoffInit /\ [][BackoffNext]_vars

\* The backends without faults when instances are only added: the
\* membership of a service grows, so that the age of a snapshot shows in
\* the addresses it holds.
GrowInit == InitWith({"memory", "etcd", "zk"}, MaxEnv, MaxSubs, MaxOps, 0, 0, MaxLog)
GrowNext ==
    \/ \E i \in Infos : MemRegister(i)
    \/ \E i \in Infos : EtcdRegister(i)
    \/ \E i \in Infos : ZkRegister(i)
    \/ \E n \in Names : ZkCreateServiceNode(n)
    \/ \E w \in Subs, n \in Names : MemWatch(w, n)
    \/ \E w \in Subs, n \in Names : EtcdWatch(w, n)
    \/ \E w \in Subs, n \in Names : ZkWatch(w, n)
    \/ \E w \in Subs : LoopStep(w)
    \/ \E w \in Subs : ZkSend(w)
    \/ CallerNext
GrowSpec == GrowInit /\ [][GrowNext]_vars

\* The etcd backend with one subscription when two backend calls may fail.
LeaseInit == InitWith({"etcd"}, MaxEnv, 1, MaxOps, MaxFaults + 1, 0, MaxLog)
LeaseNext == EtcdNext \/ CallerNext
LeaseSpec == LeaseInit /\ [][LeaseNext]_vars

\* NewRegistry called with any option, and registrations with the registry
\* it returned.
FactoryInit == InitOf({"none"}, Options, "caller", MaxEnv, 0, MaxOps, 0, 0, 0, 0)
FactoryNext ==
    \/ NewRegistryOk
    \/ NewRegistryErr
    \/ \E i \in Infos : MemRegister(i)
    \/ \E i \in Infos : EtcdRegister(i)
    \/ \E n \in Names : ZkCreateServiceNode(n)
    \/ \E i \in Infos : ZkRegister(i)
FactorySpec == FactoryInit /\ [][FactoryNext]_vars

\* A step of the resolver built over subscription w.
ResolverStep(w) ==
    BuildReturn(w) \/ watchUpdate(w) \/ watchCtxDone(w) \/ watchChanClosed(w)

ResolverCalls ==
    \/ \E w \in Subs, n \in Names : Build(w, n)
    \/ \E w \in Subs, n \in Names : BuildErr(w, n)
    \/ \E w \in Subs : Close(w)
    \/ \E w \in Subs : ResolveNow(w)

\* One resolver built over a registry of any backend, or over a Registry
\* whose Watch fails, while the registry is in use.
ResolverInit ==
    InitOf({"memory", "etcd", "zk", "other"}, {NilOption}, "none",
           MaxEnv, 1, MaxOps, MaxFaults, 0, MaxLog, MaxCalls)
ResolverNext ==
    \/ MemNext \/ EtcdCoreNext \/ ZkNext
    \/ \E w \in Subs : Recv(w)
    \/ ResolverCalls
    \/ \E w \in Subs : ResolverStep(w)
ResolverSpec == ResolverInit /\ [][ResolverNext]_vars

\* The resolver's goroutine runs when it can.
ResolverFairness == \A w \in Subs : WF_vars(ResolverStep(w))

\* A Register call made before any resolver is built.
RegisterFirst(i) ==
    /\ \A w \in Subs : wpc[w] = "none"
    /\ MemRegister(i)

\* Resolvers built over an in-memory registry that holds the instances
\* registered before, with no other call.
SceneInit == InitOf({"memory"}, {NilOption}, "none", MaxEnv, MaxSubs, MaxOps, 0, 0, MaxLog, 0)
SceneNext ==
    \/ \E i \in Infos : RegisterFirst(i)
    \/ \E w \in Subs, n \in Names : Build(w, n)
    \/ \E w \in Subs : MemWatchSend(w)
    \/ \E w \in Subs : BuildReturn(w)
    \/ \E w \in Subs : Recv(w)
    \/ \E w \in Subs : watchUpdate(w)
SceneSpec == SceneInit /\ [][SceneNext]_vars /\ Fairness /\ ResolverFairness

\* One resolver built over an in-memory or etcd registry in use, its
\* goroutine and the registry's running when they can.
CloseInit ==
    InitOf({"memory", "etcd"}, {NilOption}, "none", MaxEnv, 1, 1, MaxFaults, 0, MaxLog,
           MaxCalls)
CloseNext ==
    \/ MemNext \/ EtcdCoreNext
    \/ \E w \in Subs : Recv(w)
    \/ \E w \in Subs, n \in Names : Build(w, n)
    \/ \E w \in Subs : Close(w)
    \/ \E w \in Subs : ResolveNow(w)
    \/ \E w \in Subs : ResolverStep(w)
CloseSpec == CloseInit /\ [][CloseNext]_vars /\ Fairness /\ ResolverFairness

\* Connections made by NewGRPCConn over a registry in use, one resolver
\* built.
ConnInit ==
    InitOf({"memory", "etcd", "zk"}, {NilOption}, "none", MaxEnv, 1, MaxOps, MaxFaults,
           0, MaxLog, MaxCalls)
ConnNext ==
    \/ \E w \in Subs, n \in Names : NewGRPCConn(w, n)
    \/ MemNext \/ EtcdCoreNext \/ ZkNext
    \/ \E w \in Subs : Recv(w)
    \/ \E w \in Subs : Close(w)
    \/ \E w \in Subs : ResolveNow(w)
    \/ \E w \in Subs : ResolverStep(w)
ConnSpec == ConnInit /\ [][ConnNext]_vars

\* -------------------------------------------------------------- claims

\* Watch has been called for subscription w.
Opened(w) == wpc[w] # "none"

\* Subscription w watches service n and its context is not cancelled.
Active(w, n) == Opened(w) /\ wName[w] = n /\ ~ctxDone[w]

\* The positions of snapshot snap that hold an instance with address a.
At(snap, a) == { k \in 1..Len(snap) : snap[k].Address = a }

\* The snapshot subscription w received last holds exactly one instance for
\* the address of i, and that instance carries the metadata of i.
Got(w, i) ==
    /\ recvLast[w] # NoSnap
    /\ Cardinality(At(recvLast[w], i.Address)) = 1
    /\ \A k \in At(recvLast[w], i.Address) : recvLast[w][k].Metadata = i.Metadata

\* Subscription w is settled: its loop waits for the next change with no
\* change pending, and its channel holds nothing the consumer has not
\* taken. Nothing is delivered to w before the next call on the registry.
Settled(w) ==
    /\ wpc[w] \in {"m_wait", "e_range", "z_wait"}
    /\ chan[w] = <<>>
    /\ stream[w].pending = 0
    /\ ~stream[w].failed

\* C1: once Register(i) has returned nil, every subscription on i.Name whose
\* context is not cancelled eventually receives a snapshot holding exactly
\* one instance for i.Address, with the metadata of i: a settled
\* subscription on the service of a registered i has received it.
C1_RegisterObserved ==
    \A w \in Subs, i \in Infos :
        (i \in regd /\ Active(w, i.Name) /\ Settled(w)) => Got(w, i)

\* The snapshot subscription w received last shows address a under service
\* n, which the store no longer holds.
Stale(w, n, a) ==
    /\ Active(w, n)
    /\ services[n][a] = NoInfo
    /\ recvLast[w] # NoSnap
    /\ At(recvLast[w], a) # {}

\* C2: after Unregister(i) has returned nil, every active subscription on
\* i.Name eventually receives a snapshot without i.Address: a settled
\* subscription is not left with a snapshot showing an address that the
\* store does not hold.
C2_UnregisterObserved ==
    \A w \in Subs, n \in Names, a \in Addrs : Settled(w) => ~Stale(w, n, a)

\* No backend fault has occurred so far.
NoFaultYet == budget.faults = MaxFaults

\* C3: Watch on a service name that was never registered delivers a
\* zero-length list as the first value, without waiting for a registration
\* or a retry: with a healthy backend the loop of such a subscription is
\* never in a retry sleep, and whatever its channel carries is empty.
C3_FirstSnapshotEmpty ==
    \A w \in Subs :
        (Opened(w) /\ wName[w] \notin everReg /\ NoFaultYet) =>
            /\ wpc[w] # "z_sleep"
            /\ recvLast[w] \in {NoSnap, <<>>}
            /\ \A k \in 1..Len(chan[w]) : chan[w][k] = <<>>

\* C4: after the context passed to Watch is cancelled, the goroutine
\* terminates and the channel is closed, eventually.
C4_CancelCloses ==
    \A w \in Subs : (Opened(w) /\ ctxDone[w]) ~> (closes[w] > 0)

\* C5: a channel returned by Watch is closed at most once, and nothing is
\* sent on it after it was closed.
C5_CloseOnceNoSendAfter ==
    /\ \A w \in Subs : closes[w] <= 1
    /\ sentOnClosed = {}

\* C5's case: in the memory backend a Register for the service of a closed
\* subscription has notified the subscribers after the close (the consumer
\* took the empty first snapshot, and the registration reached neither the
\* channel nor the consumer).
C5_Witness ==
    \E w \in Subs :
        /\ backend = "memory"
        /\ closes[w] = 1
        /\ recvLast[w] = <<>>
        /\ chan[w] = <<>>
        /\ Registered(services, wName[w]) # {}

\* C6: a Watch channel is closed only after the Watch context has been
\* cancelled; no backend error closes it.
C6_ClosedOnlyOnCancel ==
    \A w \in Subs : closes[w] > 0 => ctxDone[w]

\* C7: in the etcd and ZooKeeper backends the loop waits for further
\* events only after it has listed the instances again since the last
\* failure or end of its watch.
C7_RelistBeforeWait ==
    \A w \in Subs : wpc[w] \in {"e_range", "z_wait"} => resynced[w]

\* The delay the loop of an etcd subscription is to sleep before it opens
\* its watch for the k-th time again: 1, 2, 4, 8, 16, 30, 30, ... seconds.
EtcdDelay(k) == IF k <= 5 THEN 2 ^ (k - 1) ELSE 30

\* C8: the etcd Watch loop sleeps 1s, 2s, 4s, 8s, 16s, 30s, 30s, ... before
\* the successive re-establishments of its watch; the ZooKeeper Watch loop
\* sleeps exactly 2s before every retry.
C8_RetryDelays ==
    \A w \in Subs : \A k \in 1..Len(delays[w]) :
        delays[w][k] = IF backend = "etcd" THEN EtcdDelay(k) ELSE 2

\* C8's case: an etcd loop has slept seven times, the last two at the cap.
C8_Witness ==
    \E w \in Subs :
        /\ backend = "etcd"
        /\ Len(delays[w]) >= 7
        /\ delays[w][6] = 30
        /\ delays[w][7] = 30

\* Watch has never been called for service n.
NeverWatched(n) == \A w \in Subs : wName[w] # n

\* C9: in every backend GetServiceInstances(name), on a registry on which
\* Watch(name) was never called, returns an empty list, even when
\* instances of the name are registered in the store.
C9_LookupBeforeWatchEmpty ==
    (got.name # "" /\ NeverWatched(got.name)) => got.val = <<>>

\* A Watch loop for service n holds a listing it has not yet written to
\* the cache.
Writing(n) == \E w \in Subs : wName[w] = n /\ wpc[w] \in {"e_cache", "z_cache"}

\* C10: in the etcd and ZooKeeper backends the cache entry of a service
\* name always equals the snapshot most recently listed by a Watch loop
\* for that name (once the loops have written what they listed), and
\* GetServiceInstances returns a copy of the entry.
C10_CacheIsLastListed ==
    /\ \A n \in Names :
          (backend \in {"etcd", "zk"} /\ ~Writing(n)) => cache[n] = lastListed[n]
    /\ ~got.alias

\* No two instances of snapshot snap have the same address.
NoDup(snap) ==
    \A j, k \in 1..Len(snap) : snap[j].Address = snap[k].Address => j = k

\* Every snapshot a backend has produced and still holds somewhere: listed
\* by a Watch call or loop, buffered in a channel, received last, cached.
Snapshots ==
    UNION { {wInst[w], recvLast[w]} \cup Range(chan[w]) : w \in Subs }
        \cup { cache[n] : n \in Names } \cup { lastListed[n] : n \in Names }

\* What the store of the backend holds for a registered info.
Stored(i) ==
    CASE backend = "memory" -> i
      [] backend = "etcd" -> EtcdValue(i)
      [] backend = "zk" -> ZkData(i)

\* C11: registering the same (name, address) twice leaves one entry for
\* the address: no snapshot holds two instances with the same address, and
\* what the store holds for a registered (name, address) is the data of
\* the last Register for it, which alone stands for that address.
C11_ReRegisterReplaces ==
    /\ \A snap \in Snapshots : NoDup(snap)
    /\ \A i \in regd : services[i.Name][i.Address] \in {Stored(i), NoInfo}
    /\ \A i, j \in regd : (i.Name = j.Name /\ i.Address = j.Address) => i = j

\* C11's case: a memory subscriber has received the snapshot of the first
\* registration of (s1, a1), and its channel holds the snapshot of the
\* second one, a single instance with the second's metadata.
C11_Witness ==
    \E w \in Subs :
        /\ backend = "memory"
        /\ recvLast[w] = <<ServiceInstance("a1", {<<"version", "v1">>})>>
        /\ chan[w] = << <<ServiceInstance("a1", {<<"zone", "z1">>})>> >>

\* The addresses of the instances of snapshot snap.
AddrsOf(snap) == { snap[k].Address : k \in 1..Len(snap) }

\* The addresses registered under service n and not unregistered since.
RegisteredAddrs(n) == { i.Address : i \in { j \in regd : j.Name = n } }

\* C12: in the memory backend no registration is lost: the snapshot that
\* a Watch or a GetServiceInstances takes holds exactly the addresses
\* whose Register calls have returned (and were not unregistered), under
\* every interleaving of the calls.
C12_NoLostRegistration ==
    [][ /\ \A n \in Names :
              MemGetServiceInstances(n) => AddrsOf(got'.val) = RegisteredAddrs(n)
        /\ \A w \in Subs, n \in Names :
              MemWatch(w, n) => AddrsOf(wInst'[w]) = RegisteredAddrs(n) ]_vars

\* C12's case: after the registrations of two distinct addresses under s1
\* a GetServiceInstances of the memory backend has returned both.
C12_Witness ==
    /\ backend = "memory"
    /\ got.name = "s1"
    /\ AddrsOf(got.val) = {"a1", "a2"}
    /\ Len(got.val) = 2

\* Subscriber w of the memory backend has taken everything sent to it so
\* far: Watch has returned and the channel is empty.
Drained(w) == wpc[w] = "m_wait" /\ chan[w] = <<>>

\* C13: in the memory backend a subscriber that has received every earlier
\* snapshot when the next Register/Unregister is issued gets exactly one
\* snapshot for that operation, equal as a set to the membership right
\* after it; the first snapshot is the membership at subscription time,
\* and the snapshots are received in the order they were sent.
C13_OneSnapshotPerOperation ==
    [][ /\ \A i \in Infos, w \in Subs :
              ( /\ MemRegister(i) \/ MemUnregister(i)
                /\ Drained(w)
                /\ wName[w] = i.Name )
              => /\ Len(chan'[w]) = 1
                 /\ NoDup(chan'[w][1])
                 /\ AddrsOf(chan'[w][1]) = Registered(services', i.Name)
        /\ \A w \in Subs, n \in Names :
              MemWatch(w, n) => AddrsOf(wInst'[w]) = Registered(services, n)
        /\ \A w \in Subs :
              (MemWatchSend(w) /\ chan[w] = <<>>) => chan'[w] = <<wInst[w]>>
        /\ \A w \in Subs :
              (backend = "memory" /\ Recv(w)) => recvLast'[w] = Head(chan[w]) ]_vars

\* C13's case: a memory subscriber has received [a1] after Register, and
\* the Unregister of a1 has put the empty snapshot into its channel.
C13_Witness ==
    \E w \in Subs :
        /\ backend = "memory"
        /\ wpc[w] = "m_wait"
        /\ AddrsOf(recvLast[w]) = {"a1"}
        /\ chan[w] = << <<>> >>
        /\ Registered(services, wName[w]) = {}

\* C14: MemoryRegistry.Watch never blocks indefinitely: under every
\* interleaving with Register/Unregister calls its first send finds room
\* in the channel, so that Watch returns with the subscription-time
\* snapshot as the first value.
C14_WatchReturns ==
    \A w \in Subs : wpc[w] = "m_send" => Len(chan[w]) < MemChanCap

\* C15: in the memory backend a subscriber that reads slower than the
\* updates arrive still ends with the newest state: once it has read all
\* that was sent to it, the snapshot it received last equals the current
\* membership of the service.
C15_SlowSubscriberEndsNewest ==
    \A w \in Subs :
        (backend = "memory" /\ Settled(w)) =>
            AddrsOf(recvLast[w]) = Registered(services, wName[w])

\* A Register or Unregister call of the memory backend is still to come.
MemCallPending == backend = "memory" /\ CanSpend("ops")

\* C16: in the memory backend Register and Unregister always complete,
\* whatever the subscribers' channels hold and whether or not anybody
\* reads them: the calls are never blocked, and no channel is filled
\* beyond its capacity.
C16_WriterNeverBlocked ==
    /\ MemCallPending =>
          \A i \in Infos : ENABLED MemRegister(i) /\ ENABLED MemUnregister(i)
    /\ backend = "memory" => \A w \in Subs : Len(chan[w]) <= MemChanCap

\* C16's case: both calls the bounds allow were made on a memory registry
\* while the channel of a subscriber stayed full and unread.
C16_Witness ==
    \E w \in Subs :
        /\ backend = "memory"
        /\ wpc[w] = "m_wait"
        /\ recvLast[w] = NoSnap
        /\ Len(chan[w]) = MemChanCap
        /\ budget.ops = 0

C18_KeepAliveEndCleansUp ==
    \A l \in Leases :
        leases[l].loop \in {"cleaned", "raced"} =>
            /\ leases[l].state = "gone"
            /\ keyLease[leases[l].name][leases[l].addr] # l

\* C19: in the etcd backend the key of a registered (name, address) is
\* removed only by an Unregister of that key or by the loss of the lease
\* attached to it; the keep-alive goroutine of an earlier registration does
\* not remove the key a later Register has written.
C19_KeyRemovedOnlyByOwner ==
    [][ \A n \in Names, a \in Addrs :
            (backend = "etcd" /\ services[n][a] # NoInfo /\ services'[n][a] = NoInfo)
            => \/ \E i \in Infos, l \in {0} \cup Leases :
                     i.Name = n /\ i.Address = a /\ EtcdUnregister(i, l)
               \/ /\ leases[keyLease[n][a]].state = "live"
                  /\ leases'[keyLease[n][a]].state = "gone" ]_vars

\* The last call was a Register that failed.
RegisterFailed == ret.op = "Register" /\ ret.failed # ""

C21_ZkRegisterLeavesNode ==
    [][\A i \in Infos :
          ZkRegister(i) => i \in regd' /\ services'[i.Name][i.Address] = ZkData(i)]_vars

\* --------------------------------------------------------------- C22

\* The cases of the selection rule, read off the option.
WantsEtcd == ~opt.isNil /\ opt.Type = "etcd" /\ opt.Etcd = "set"
WantsZk == ~opt.isNil /\ opt.Type = "zookeeper" /\ opt.Zookeeper = "set"

\* C22: NewRegistry selects by (opt nil or not, Type, Etcd nil or not,
\* Zookeeper nil or not): the etcd constructor for an etcd option with its
\* sub-config, otherwise the ZooKeeper constructor for a ZooKeeper option
\* with its sub-config, otherwise the in-memory registry, which never fails.
C22_SelectionRule ==
    made.called =>
        /\ WantsEtcd => made.sel = "etcd"
        /\ ~WantsEtcd /\ WantsZk => made.sel = "zk"
        /\ ~WantsEtcd /\ ~WantsZk =>
              made.sel = "memory" /\ ~made.failed /\ backend = "memory"
        /\ ~made.failed => backend = made.sel

\* The ZooKeeper registry was built from an option that also carries an
\* etcd sub-config.
C22_Witness ==
    /\ made.called /\ ~made.failed
    /\ backend = "zk"
    /\ opt.Etcd = "set"
    /\ regd # {}

\* --------------------------------------------------------------- C23

\* C23: NewRegistry yields the in-memory registry only when no backend type
\* is named: an option whose Type is etcd or zookeeper with the matching
\* sub-config nil does not yield it.
C23_NoFallbackOnIncomplete ==
    /\ made.called
    /\ ~opt.isNil
    /\ \/ opt.Type = "etcd" /\ opt.Etcd = "nil"
       \/ opt.Type = "zookeeper" /\ opt.Zookeeper = "nil"
    => made.sel # "memory"

\* --------------------------------------------------------------- C24

\* C24: Build returns a resolver with exactly one watch loop started once
\* Registry.Watch has returned without error, also for a service with no
\* instance; when Watch returns an error Build returns the error, starts no
\* loop and has cancelled its context.
C24_BuildStartsOneLoop ==
    \A w \in Subs :
        /\ Built(w) => loops[w] = 1 /\ Returned(w)
        /\ rpc[w] = "failed" => loops[w] = 0 /\ ctxDone[w] /\ ~Returned(w)
        /\ rpc[w] = "none" => loops[w] = 0
        /\ rpc[w] = "none" /\ Returned(w) => ENABLED BuildReturn(w)

\* A resolver built over a service nobody has registered, its loop having
\* pushed the empty address list.
C24_Witness ==
    \E w \in Subs :
        /\ Built(w)
        /\ everReg = {}
        /\ updates[w] = << <<>> >>
        /\ ~ctxDone[w]

\* --------------------------------------------------------------- C25

\* The snapshots whose handling the loop of subscription w has completed.
Handled(w) ==
    IF rpc[w] = "update" THEN SubSeq(rcvd[w], 1, Len(rcvd[w]) - 1) ELSE rcvd[w]

\* C25: the UpdateState calls of a resolver are, in order, one per snapshot
\* its loop received, each with exactly the addresses of the snapshot's
\* instances in their order; an empty snapshot gives an empty list.
C25_OneUpdatePerSnapshot ==
    \A w \in Subs :
        /\ Len(updates[w]) = Len(Handled(w))
        /\ \A k \in 1..Len(updates[w]) :
              /\ Len(updates[w][k]) = Len(Handled(w)[k])
              /\ \A j \in 1..Len(updates[w][k]) :
                    updates[w][k][j] = Handled(w)[k][j].Address

\* Three snapshots handled: the empty one, then one and two instances.
C25_Witness ==
    \E w \in Subs :
        /\ Len(updates[w]) = 3
        /\ updates[w][1] = <<>>
        /\ Len(updates[w][2]) = 1
        /\ Len(updates[w][3]) = 2
        /\ rpc[w] = "run"

\* --------------------------------------------------------------- C26

\* The resolver of subscription w has called UpdateState with exactly the
\* address a.
Pushed(w, a) == \E k \in 1..Len(updates[w]) : updates[w][k] = <<a>>

\* C26: a resolver built over an in-memory registry that holds one instance
\* of the service eventually calls UpdateState with the list of that one
\* address, no ResolveNow being called.
C26_BuiltResolverPushesInstance ==
    \A w \in Subs, a \in Addrs :
        (Opened(w) /\ Registered(services, wName[w]) = {a}) ~> Pushed(w, a)

\* The resolver built over the one instance has pushed its address.
C26_Witness ==
    \E w \in Subs :
        /\ Opened(w)
        /\ Registered(services, wName[w]) = {"a1"}
        /\ updates[w] = << <<"a1">> >>
        /\ rpc[w] = "run"

\* --------------------------------------------------------------- C27

\* Everything but the count of Close calls and the calls still to come.
closeFrame ==
    << backend, factoryVars, rpc, addrs, updates, rcvd, loops, leaseVars, storeVars,
       watchers, cache, wName, wpc, ctxDone, chanVars, loopVars, recvLast, ghostVars,
       got >>

\* C27: Close may be called any number of times, in any interleaving with
\* the watch loop: it can always run, and a Close after the first changes
\* nothing.
C27_CloseIdempotent ==
    /\ [](\A w \in Subs : Built(w) /\ CanSpend("calls") => ENABLED Close(w))
    /\ [][\A w \in Subs : Close(w) /\ nClose[w] > 0 => UNCHANGED closeFrame]_vars

\* Close has run twice while the watch loop and the registry's goroutine
\* have not yet seen the cancellation.
C27_Witness ==
    \E w \in Subs : nClose[w] = 2 /\ rpc[w] = "run" /\ wpc[w] \notin {"none", "done"}

\* --------------------------------------------------------------- C28

\* C28: after Close of a resolver built over the memory registry the
\* resolver's loop exits and the registry's goroutine ends, the channel
\* taken out of the service's subscriber list and closed.
C28_CloseEndsSubscription ==
    \A w \in Subs :
        (backend = "memory" /\ nClose[w] > 0)
            ~> /\ rpc[w] \in {"done", "closed"}
               /\ wpc[w] = "done"
               /\ closes[w] = 1
               /\ w \notin Range(watchers[wName[w]])

\* The subscription of a closed resolver is gone from the memory registry.
C28_Witness ==
    \E w \in Subs :
        /\ backend = "memory"
        /\ nClose[w] > 0
        /\ rpc[w] \in {"done", "closed"}
        /\ closes[w] = 1
        /\ watchers[wName[w]] = <<>>

\* --------------------------------------------------------------- C29

\* C29: once the registry's channel is closed the resolver's loop exits; a
\* loop that has found the channel closed stays exited, calls UpdateState
\* no more and opens no new subscription.
C29_ClosedChannelEndsLoop ==
    /\ \A w \in Subs : closes[w] > 0 ~> rpc[w] \in {"done", "closed"}
    /\ [][\A w \in Subs :
             rpc[w] = "closed" =>
                 /\ rpc'[w] = "closed"
                 /\ updates'[w] = updates[w]
                 /\ wpc'[w] = wpc[w]
                 /\ budget'.subs = budget.subs]_vars

\* A loop that exited on the closed channel of a registry whose context
\* nobody cancelled, and the registry used afterwards.
C29_Witness ==
    \E w \in Subs :
        /\ rpc[w] = "closed"
        /\ ~ctxDone[w]
        /\ regd # {}

\* --------------------------------------------------------------- C30

\* Everything but the calls still to come.
resolveFrame == << closeFrame, nClose >>

\* C30: ResolveNow changes nothing: no resolver state, no UpdateState call,
\* no registry call, no channel.
C30_ResolveNowNoOp ==
    [][\A w \in Subs : ResolveNow(w) => UNCHANGED resolveFrame]_vars

\* ResolveNow was called twice on a resolver that has pushed one snapshot.
C30_Witness ==
    /\ budget.calls = MaxCalls - 2
    /\ \A w \in Subs : nClose[w] = 0
    /\ \E w \in Subs : rpc[w] = "run" /\ Len(updates[w]) = 1

\* --------------------------------------------------------------- C31

\* C31: the builder's Scheme is its registry's Name, the three backends'
\* names differ from each other, and the target NewGRPCConn builds parses
\* to that scheme, so that the builder it installs is the one chosen and is
\* asked for the service named.
C31_SchemeIsName ==
    /\ [](/\ Scheme(backend) = Name(backend)
          /\ \A b \in {"memory", "etcd", "zk"} : b # backend => Name(b) # Name(backend)
          /\ \A w \in Subs, n \in Names :
                NextSub(w) =>
                    /\ parsedScheme(Target(backend, n)) = Scheme(backend)
                    /\ Endpoint(Target(backend, n)) = ServiceChars(n)
                    /\ ENABLED NewGRPCConn(w, n))
    /\ [][\A w \in Subs, n \in Names : NewGRPCConn(w, n) => wName'[w] = n]_vars

\* The resolver of a connection to s2 over the etcd registry has pushed an
\* address.
C31_Witness ==
    \E w \in Subs :
        /\ backend = "etcd"
        /\ wName[w] = "s2"
        /\ Built(w)
        /\ \E k \in 1..Len(updates[w]) : updates[w][k] = <<"a1">>

\* --------------------------------------------------------------- C32

\* C32: once Close has returned the resolver calls UpdateState no more,
\* also when a snapshot is buffered in the registry's channel at that time.
C32_NoUpdateAfterClose ==
    [][\A w \in Subs : nClose[w] > 0 => updates'[w] = updates[w]]_vars

\* --------------------------------------------------------------- C33

\* The leases granted for the key of a service name and address that are
\* alive, and those among them whose keep-alive loop runs.
LiveLeases(n, a) ==
    { l \in Leases : leases[l].state = "live" /\ leases[l].name = n /\ leases[l].addr = a }
RunningLoops(n, a) ==
    { l \in Leases : leases[l].loop = "run" /\ leases[l].name = n /\ leases[l].addr = a }

\* C33: in the etcd backend at most one lease and at most one keep-alive
\* loop are alive for a key, a second Register of the key ending those of
\* the first.
C33_OneLeasePerKey ==
    \A n \in Names, a \in Addrs :
        /\ Cardinality(LiveLeases(n, a)) <= 1
        /\ Cardinality(RunningLoops(n, a)) <= 1


\* C34: the etcd Watch loop writes every listing to the cache before it
\* offers it to the channel, whether the channel takes it or not, so the
\* cache entry read by GetServiceInstances is at least as recent as every
\* snapshot still waiting in a channel of the service. Stated where
\* instances are only added: every address of a waiting snapshot is in
\* the cache entry.
C34_CacheNotOlderThanChannel ==
    \A w \in Subs : \A k \in 1..Len(chan[w]) :
        (backend = "etcd" /\ Opened(w)) =>
            AddrsOf(chan[w][k]) \subseteq AddrsOf(cache[wName[w]])


\* C35: the backoff of an etcd Watch loop never decreases while its
\* subscription lives and is not started anew when a re-established watch
\* delivers events: wherever the loop stands after its k-th sleep, the delay
\* it is to sleep next is min(2^k, 30) seconds, and the k-th delay it slept
\* was min(2^(k-1), 30) seconds.
C35_BackoffNeverResets ==
    /\ [](\A w \in Subs :
             (backend = "etcd" /\ ~Initial(w) /\ Len(delays[w]) < budget.log) =>
                 /\ backoff[w] = Min(2 ^ Len(delays[w]), BackoffCap)
                 /\ \A k \in 1..Len(delays[w]) :
                       delays[w][k] = Min(2 ^ (k - 1), BackoffCap))
    /\ [][\A w \in Subs : backend = "etcd" => backoff'[w] >= backoff[w]]_vars

\* C35's case: a watch opened again after two sleeps has delivered an event,
\* the loop lists the instances again and its next delay is still 4s.
C35_Witness ==
    \E w \in Subs :
        /\ backend = "etcd"
        /\ wpc[w] = "e_load"
        /\ Len(delays[w]) = 2
        /\ backoff[w] = 4


\* Register or Unregister of the memory backend is called for service n.
MemCallFor(n) ==
    \E i \in Infos : i.Name = n /\ (MemRegister(i) \/ MemUnregister(i))

\* Unregister of the memory backend is called for an address of service n
\* that is not registered.
MemUnregisterAbsent(n) ==
    \E i \in Infos :
        i.Name = n /\ services[n][i.Address] = NoInfo /\ MemUnregister(i)

\* The channel of subscription w is offered the instances of service n as
\* they now are: it takes them if it has room and keeps what it holds if not.
Offered(w, n) ==
    IF Len(chan[w]) < MemChanCap
    THEN \E insts \in getInstances(services', n) : chan'[w] = Append(chan[w], insts)
    ELSE chan'[w] = chan[w]

\* C36: in the memory backend Register and Unregister for a service leave
\* the instances of every other service as they are and send nothing to
\* the subscribers of other services; Unregister of an address that is not
\* registered leaves the instances of its service as they are, returns nil
\* and still offers the snapshot to the subscribers of the service.
C36_OtherServicesUntouched ==
    [][\A n \in Names :
          /\ MemCallFor(n) =>
                /\ \A y \in Names \ {n} : services'[y] = services[y]
                /\ \A w \in Subs : w \notin Range(watchers[n]) => chan'[w] = chan[w]
          /\ MemUnregisterAbsent(n) =>
                /\ services' = services
                /\ ret'.err = ""
                /\ \A w \in Range(watchers[n]) : Offered(w, n)]_vars

\* C36's case: nothing was ever registered, a subscriber of s1 has received
\* its first snapshot and holds the unchanged one an Unregister offered it,
\* and the channel of a subscriber of s2 stayed empty.
C36_Witness ==
    \E w, y \in Subs :
        /\ backend = "memory"
        /\ everReg = {}
        /\ wName[w] = "s1" /\ recvLast[w] = <<>> /\ chan[w] = << <<>> >>
        /\ wName[y] = "s2" /\ recvLast[y] = <<>> /\ chan[y] = <<>>
        /\ y \in Range(watchers["s2"])


\* The subscriber list without w, the others in the order they had.
Without(list, w) == SelectSeq(list, LAMBDA x : x # w)

\* Subscription y of the memory backend is open and its goroutine has not
\* closed its channel.
MemLive(y) == backend = "memory" /\ Opened(y) /\ wpc[y] # "done"

Sole(w) == \A v \in Subs \ {w} : wName[v] # wName[w]

\* C38: in the ZooKeeper backend the Watch loop leaves its send only by
\* delivering the snapshot it listed or because its context is cancelled,
\* the cache holds the snapshot before it is delivered, and the loop lists
\* again only after its one-shot watch has fired; so while the loop waits
\* for its watch the snapshot its watcher received last is the last listing.
C38_ZkDeliversEveryListing ==
    /\ [](\A w \in Subs :
             (backend = "zk" /\ Sole(w)) =>
                 /\ wpc[w] = "z_send" =>
                       (cache[wName[w]] = wInst[w] /\ lastListed[wName[w]] = wInst[w])
                 /\ wpc[w] = "z_wait" =>
                       (recvLast[w] = lastListed[wName[w]]
                           /\ recvLast[w] = cache[wName[w]]))
    /\ [][\A w \in Subs :
             /\ (wpc[w] = "z_send" /\ wpc'[w] # "z_send") =>
                   \/ wpc'[w] = "z_wait" /\ recvLast'[w] = wInst[w]
                   \/ wpc'[w] = "done" /\ ctxDone[w]
             /\ (wpc[w] = "z_wait" /\ wpc'[w] # "z_wait") =>
                   \/ wpc'[w] = "z_list" /\ stream[w].pending > 0
                   \/ wpc'[w] = "done" /\ ctxDone[w]]_vars

\* C38's case: the loop has delivered its listing of a1 and waits; a2 was
\* registered since, the watch has fired and the loop has not listed again.
C38_Witness ==
    \E w \in Subs :
        /\ backend = "zk"
        /\ Sole(w)
        /\ wpc[w] = "z_wait"
        /\ AddrsOf(recvLast[w]) = {"a1"}
        /\ Registered(services, wName[w]) = {"a1", "a2"}
        /\ stream[w].pending > 0


\* C39: a call of RedisLock.Unlock always returns, whatever calls of Lock
\* and Unlock came before it: the Unlock that follows a successful Lock
\* cancels every auto-renew goroutine that is running, also when Lock
\* succeeded twice without an Unlock between because the key was gone, so
\* that its wait for the goroutines ends.
C39_UnlockReturns ==
    /\ [](lock.pc = "wait" => \A g \in Renewers : lock.renew[g] # "run")
    /\ (lock.pc # "idle") ~> (lock.pc = "idle")

====
